---- MODULE Spec2Model ----
(***************************************************************************)
(* A model of the propositional-logic formula engine: the parser, the      *)
(* formatter, position addressing, the evaluator, the unit-propagation     *)
(* loops and determinism classifiers, the pure-atom simplifier, the        *)
(* polarity calculator, the Tseytin transformer and the interpretation     *)
(* tester.                                                                 *)
(*                                                                         *)
(* A JavaScript string is a sequence of one-character strings.  The        *)
(* glyphs of the formula language are written with ASCII stand-ins, one    *)
(* character for one character:                                            *)
(*     not "~"   and "&"   or "|"   implies ">"   equiv "="                *)
(*     top "T"   bottom "F"   models "@"   does-not-model "#"              *)
(* All other characters ("(", ")", " ", ".", ",", ";", "-", letters and    *)
(* digits) stand for themselves.                                           *)
(***************************************************************************)
EXTENDS Naturals, Integers, Sequences, FiniteSets, TLC

VARIABLES
    config,   \* the configuration record handed to calculate(config)
    called,   \* the calculate entry point that was invoked, "none" before
    result,   \* what the call returned, or the error it threw
    nextVar   \* TseytinTransformer's instance field this.nextVar

vars == <<config, called, result, nextVar>>

-----------------------------------------------------------------------------
(* Glyphs *)

NOT == "~"
AND == "&"
OR == "|"
IMPLIES == ">"
EQUIV == "="
TOP == "T"
BOT == "F"
MODELS == "@"
NOTMODELS == "#"

LowerCase == <<"a","b","c","d","e","f","g","h","i","j","k","l","m",
               "n","o","p","q","r","s","t","u","v","w","x","y","z">>
Digits == <<"0","1","2","3","4","5","6","7","8","9">>

IsLower(ch) == \E i \in 1..Len(LowerCase) : LowerCase[i] = ch
IsDigit(ch) == \E i \in 1..Len(Digits) : Digits[i] = ch
LetterIndex(ch) == CHOOSE i \in 1..Len(LowerCase) : LowerCase[i] = ch
DigitValue(ch) == (CHOOSE i \in 1..Len(Digits) : Digits[i] = ch) - 1

-----------------------------------------------------------------------------
(* Generic sequence helpers standing for Array.prototype / String.prototype *)

RECURSIVE Concat(_)
Concat(ss) == IF ss = <<>> THEN <<>> ELSE Head(ss) \o Concat(Tail(ss))

\* arr.join(sep) for an array of strings
RECURSIVE Join(_, _)
Join(ss, sep) ==
    IF ss = <<>> THEN <<>>
    ELSE IF Len(ss) = 1 THEN ss[1]
    ELSE ss[1] \o sep \o Join(Tail(ss), sep)

Includes(s, x) == \E i \in 1..Len(s) : s[i] = x

\* str.split(ch): never empty, "" splits to [""]
RECURSIVE SplitAcc(_, _, _)
SplitAcc(s, ch, cur) ==
    IF s = <<>> THEN <<cur>>
    ELSE IF Head(s) = ch THEN <<cur>> \o SplitAcc(Tail(s), ch, <<>>)
    ELSE SplitAcc(Tail(s), ch, Append(cur, Head(s)))

Split(s, ch) == SplitAcc(s, ch, <<>>)

\* str.trim() (the only white space of the model is " ")
RECURSIVE TrimLeft(_)
TrimLeft(s) == IF s # <<>> /\ Head(s) = " " THEN TrimLeft(Tail(s)) ELSE s

RECURSIVE TrimRight(_)
TrimRight(s) ==
    IF s # <<>> /\ s[Len(s)] = " " THEN TrimRight(SubSeq(s, 1, Len(s) - 1)) ELSE s

Trim(s) == TrimRight(TrimLeft(s))

StartsWith(s, ch) == s # <<>> /\ s[1] = ch
EndsWith(s, ch) == s # <<>> /\ s[Len(s)] = ch

\* str.slice(1, -1)
SliceInner(s) == SubSeq(s, 2, Len(s) - 1)

\* arr with duplicates dropped, first occurrences kept: new Set(arr) in
\* insertion order
RECURSIVE Unique(_)
Unique(s) ==
    IF s = <<>> THEN <<>>
    ELSE LET init == Unique(SubSeq(s, 1, Len(s) - 1)) IN
         IF Includes(init, s[Len(s)]) THEN init ELSE Append(init, s[Len(s)])

\* a.localeCompare(b), on the characters of the model: strings are compared
\* character by character in collation order (white space, punctuation,
\* symbols, digits, letters), a proper prefix first.
Collation == <<" ", ".", "(", ")", NOT>> \o Digits \o LowerCase
CollationIndex(ch) == CHOOSE i \in 1..Len(Collation) : Collation[i] = ch

RECURSIVE localeCompare(_, _)
localeCompare(x, y) ==
    IF x = <<>> /\ y = <<>> THEN 0
    ELSE IF x = <<>> THEN -1
    ELSE IF y = <<>> THEN 1
    ELSE IF Head(x) # Head(y) THEN CollationIndex(Head(x)) - CollationIndex(Head(y))
    ELSE localeCompare(Tail(x), Tail(y))

-----------------------------------------------------------------------------
(* AST nodes, as Parser.parse builds them *)

Var(v) == [type |-> "variable", value |-> v]
Const(c) == [type |-> "constant", value |-> c]
Unary(x) == [type |-> "unary", operator |-> NOT, operand |-> x]
Binary(op, l, r) == [type |-> "binary", operator |-> op, left |-> l, right |-> r]

\* An error thrown, with its message kind
Throw(msg) == [threw |-> TRUE, error |-> msg]
Threw(r) == r.threw

-----------------------------------------------------------------------------
(* Parser.tokenize *)

\* a tokenizer that gives the two connectives each other's token type
TokenOf_SwappedAndOr(ch) ==
    IF ch = "(" THEN [type |-> "lparen", value |-> ch]
    ELSE IF ch = ")" THEN [type |-> "rparen", value |-> ch]
    ELSE IF ch = NOT THEN [type |-> "not", value |-> ch]
    ELSE IF ch = AND THEN [type |-> "or", value |-> ch]
    ELSE IF ch = OR THEN [type |-> "and", value |-> ch]
    ELSE IF ch = IMPLIES THEN [type |-> "implies", value |-> ch]
    ELSE IF ch = EQUIV THEN [type |-> "equiv", value |-> ch]
    ELSE IF ch = TOP \/ ch = BOT THEN [type |-> "constant", value |-> ch]
    ELSE IF IsLower(ch) THEN [type |-> "variable", value |-> ch]
    ELSE [type |-> "invalid", value |-> ch]

TokenOf(ch) ==
    IF ch = "(" THEN [type |-> "lparen", value |-> ch]
    ELSE IF ch = ")" THEN [type |-> "rparen", value |-> ch]
    ELSE IF ch = NOT THEN [type |-> "not", value |-> ch]
    ELSE IF ch = AND THEN [type |-> "and", value |-> ch]
    ELSE IF ch = OR THEN [type |-> "or", value |-> ch]
    ELSE IF ch = IMPLIES THEN [type |-> "implies", value |-> ch]
    ELSE IF ch = EQUIV THEN [type |-> "equiv", value |-> ch]
    ELSE IF ch = TOP \/ ch = BOT THEN [type |-> "constant", value |-> ch]
    ELSE IF IsLower(ch) THEN [type |-> "variable", value |-> ch]
    ELSE [type |-> "invalid", value |-> ch]

\* The tokens of the string; a token of type "invalid" marks the place where
\* tokenize throws `Invalid character`.
tokenize(formula) ==
    LET nonblank == SelectSeq(formula, LAMBDA ch : ch # " ")
    IN [i \in 1..Len(nonblank) |-> TokenOf(nonblank[i])]

HasInvalid(tokens) == \E i \in 1..Len(tokens) : tokens[i].type = "invalid"

-----------------------------------------------------------------------------
(* Parser.parse: recursive descent.  Each parse function returns           *)
(* [threw |-> FALSE, node, pos] or a thrown error.                         *)

Parsed(n, p) == [threw |-> FALSE, node |-> n, pos |-> p]

\* The rest of a parse function once a sub-parse returned: a throw propagates
Then(r, rest(_)) == IF Threw(r) THEN r ELSE rest(r)

RECURSIVE parseFormula(_, _), parseFormulaLoop(_, _), parseImplication(_, _),
          parseImplicationLoop(_, _), parseDisjunction(_, _),
          parseDisjunctionLoop(_, _), parseConjunction(_, _),
          parseConjunctionLoop(_, _), parseNegation(_, _), parseAtom(_, _)

parseAtom(tokens, pos) ==
    IF pos > Len(tokens) THEN Throw("Unexpected end of formula")
    ELSE IF tokens[pos].type = "lparen" THEN
             Then(parseFormula(tokens, pos + 1), LAMBDA r :
                  IF r.pos > Len(tokens) \/ tokens[r.pos].type # "rparen"
                  THEN Throw("Missing closing parenthesis")
                  ELSE Parsed(r.node, r.pos + 1))
         ELSE IF tokens[pos].type = "variable" \/ tokens[pos].type = "constant"
              THEN Parsed([type |-> tokens[pos].type, value |-> tokens[pos].value], pos + 1)
              ELSE Throw("Unexpected token")

parseNegation(tokens, pos) ==
    IF pos <= Len(tokens) /\ tokens[pos].type = "not" THEN
        Then(parseNegation(tokens, pos + 1), LAMBDA r : Parsed(Unary(r.node), r.pos))
    ELSE parseAtom(tokens, pos)

parseConjunctionLoop(tokens, sofar) ==
    IF sofar.pos <= Len(tokens) /\ tokens[sofar.pos].type = "and" THEN
        Then(parseNegation(tokens, sofar.pos + 1), LAMBDA r :
             parseConjunctionLoop(tokens,
                 Parsed(Binary(tokens[sofar.pos].value, sofar.node, r.node), r.pos)))
    ELSE sofar

parseConjunction(tokens, pos) ==
    Then(parseNegation(tokens, pos), LAMBDA r : parseConjunctionLoop(tokens, r))

parseDisjunctionLoop(tokens, sofar) ==
    IF sofar.pos <= Len(tokens) /\ tokens[sofar.pos].type = "or" THEN
        Then(parseConjunction(tokens, sofar.pos + 1), LAMBDA r :
             parseDisjunctionLoop(tokens,
                 Parsed(Binary(tokens[sofar.pos].value, sofar.node, r.node), r.pos)))
    ELSE sofar

parseDisjunction(tokens, pos) ==
    Then(parseConjunction(tokens, pos), LAMBDA r : parseDisjunctionLoop(tokens, r))

parseImplicationLoop(tokens, sofar) ==
    IF sofar.pos <= Len(tokens) /\ tokens[sofar.pos].type = "implies" THEN
        Then(parseDisjunction(tokens, sofar.pos + 1), LAMBDA r :
             parseImplicationLoop(tokens,
                 Parsed(Binary(tokens[sofar.pos].value, sofar.node, r.node), r.pos)))
    ELSE sofar

parseImplication(tokens, pos) ==
    Then(parseDisjunction(tokens, pos), LAMBDA r : parseImplicationLoop(tokens, r))

parseFormulaLoop(tokens, sofar) ==
    IF sofar.pos <= Len(tokens) /\ tokens[sofar.pos].type = "equiv" THEN
        Then(parseImplication(tokens, sofar.pos + 1), LAMBDA r :
             parseFormulaLoop(tokens,
                 Parsed(Binary(tokens[sofar.pos].value, sofar.node, r.node), r.pos)))
    ELSE sofar

parseFormula(tokens, pos) ==
    Then(parseImplication(tokens, pos), LAMBDA r : parseFormulaLoop(tokens, r))

\* Parser.parse(formula): [threw |-> FALSE, node |-> ast] or the error thrown
Parse(formula) ==
    LET tokens == tokenize(formula) IN
    IF HasInvalid(tokens) THEN Throw("Invalid character")
    ELSE Then(parseFormula(tokens, 1), LAMBDA r :
              IF r.pos <= Len(tokens) THEN Throw("Unexpected tokens after formula end")
              ELSE [threw |-> FALSE, node |-> r.node])

-----------------------------------------------------------------------------
(* Formatter.toText *)

RECURSIVE toText(_)
addParenthesesIfNeeded(node) ==
    IF node.type = "binary" THEN <<"(">> \o toText(node) \o <<")">> ELSE toText(node)

\* a precedence-unaware rendering: no parentheses at all
formatBinaryOperation_NoParens(node) ==
    toText(node.left) \o <<node.operator>> \o toText(node.right)

formatBinaryOperation(node) ==
    <<"(">> \o addParenthesesIfNeeded(node.left) \o <<node.operator>>
            \o addParenthesesIfNeeded(node.right) \o <<")">>

toText(node) ==
    IF node.type = "variable" \/ node.type = "constant" THEN <<node.value>>
    ELSE IF node.type = "unary" THEN <<NOT>> \o addParenthesesIfNeeded(node.operand)
    ELSE formatBinaryOperation(node)

-----------------------------------------------------------------------------
(* Tree.getSubformulaAtPosition *)

NULL == [type |-> "null"]
NaN == -1

RECURSIVE DecimalValue(_, _)
DecimalValue(s, acc) ==
    IF s = <<>> THEN acc ELSE DecimalValue(Tail(s), 10 * acc + DigitValue(Head(s)))

\* Number(str): white space is trimmed, "" is 0, a digit string is its value
\* (leading zeros allowed), anything else of the model's characters is NaN.
Number(str) ==
    LET t == Trim(str) IN
    IF \A i \in 1..Len(t) : IsDigit(t[i]) THEN DecimalValue(t, 0) ELSE NaN

\* position.split('.').map(Number)
positionSteps(position) ==
    LET parts == Split(position, ".") IN [i \in 1..Len(parts) |-> Number(parts[i])]

RECURSIVE walkSteps(_, _)
walkSteps(current, steps) ==
    IF steps = <<>> THEN current
    ELSE IF current.type = "null" THEN NULL
    ELSE IF current.type = "unary" /\ Head(steps) = 1
         THEN walkSteps(current.operand, Tail(steps))
    ELSE IF current.type = "binary"
         THEN walkSteps(IF Head(steps) = 1 THEN current.left ELSE current.right,
                        Tail(steps))
    ELSE NULL

getSubformulaAtPosition(tree, position) ==
    IF position = <<>> THEN tree ELSE walkSteps(tree, positionSteps(position))

-----------------------------------------------------------------------------
(* Tree.getAllPositions and the page's generatePositions handler *)

childPosition(currentPos, step) ==
    IF currentPos = <<>> THEN <<step>> ELSE currentPos \o <<".", step>>

\* the traverse closure of getAllPositions: the positions in the order pushed
RECURSIVE positionsPushed(_, _)
positionsPushed(node, currentPos) ==
    IF node.type = "unary"
    THEN <<childPosition(currentPos, "1")>>
             \o positionsPushed(node.operand, childPosition(currentPos, "1"))
    ELSE IF node.type = "binary"
    THEN <<childPosition(currentPos, "1"), childPosition(currentPos, "2")>>
             \o positionsPushed(node.left, childPosition(currentPos, "1"))
             \o positionsPushed(node.right, childPosition(currentPos, "2"))
    ELSE <<>>

\* a comparator that ignores the lengths
comparePositions_NoLength(a, b) == localeCompare(a, b)

\* (a, b) => a.length - b.length || a.localeCompare(b)
comparePositions(a, b) ==
    IF Len(a) - Len(b) # 0 THEN Len(a) - Len(b) ELSE localeCompare(a, b)

\* Array.prototype.sort with that comparator (stable)
RECURSIVE InsertPosition(_, _)
InsertPosition(sorted, x) ==
    IF sorted = <<>> THEN <<x>>
    ELSE IF comparePositions(x, Head(sorted)) < 0 THEN <<x>> \o sorted
    ELSE <<Head(sorted)>> \o InsertPosition(Tail(sorted), x)

RECURSIVE SortPositions(_)
SortPositions(positions) ==
    IF positions = <<>> THEN <<>>
    ELSE InsertPosition(SortPositions(SubSeq(positions, 1, Len(positions) - 1)),
                        positions[Len(positions)])

getAllPositions(tree) == SortPositions(<<<<>>>> \o positionsPushed(tree, <<>>))

\* generatePositions(): the formula is trimmed and parsed, the positions are
\* listed each with the text of its subformula; an empty input or an error
\* ends in an alert
generatePositions(cfg) ==
    LET formula == Trim(cfg.formula) IN
    IF formula = <<>> THEN [threw |-> FALSE, shown |-> FALSE]
    ELSE LET parsedFormula == Parse(formula) IN
         IF Threw(parsedFormula) THEN [threw |-> FALSE, shown |-> FALSE]
         ELSE LET positions == getAllPositions(parsedFormula.node) IN
              [threw |-> FALSE,
               shown |-> TRUE,
               positions |-> positions,
               items |-> [i \in 1..Len(positions) |->
                            LET subformula == getSubformulaAtPosition(parsedFormula.node,
                                                                      positions[i])
                            IN IF subformula.type = "null" THEN <<>>
                               ELSE toText(subformula)]]

-----------------------------------------------------------------------------
(* SubformulaExtractor.calculate *)

SubformulaExtractor_calculate(cfg) ==
    LET parsed == Parse(cfg.formula) IN
    IF Threw(parsed) THEN parsed
    ELSE LET subformula == getSubformulaAtPosition(parsed.node, cfg.position) IN
         IF subformula.type = "null" THEN Throw("Invalid position")
         ELSE [threw |-> FALSE,
               formula |-> cfg.formula,
               position |-> cfg.position,
               subformula |-> toText(subformula),
               tree |-> parsed.node]

-----------------------------------------------------------------------------
(* Evaluator: extractVariables, generateAssignments, evaluateFormula       *)
(* (SatisfiabilityChecker and TruthTableGenerator hold identical copies)   *)

RECURSIVE variablesOf(_)
variablesOf(node) ==
    IF node.type = "variable" THEN {node.value}
    ELSE IF node.type = "unary" THEN variablesOf(node.operand)
    ELSE IF node.type = "binary" THEN variablesOf(node.left) \cup variablesOf(node.right)
    ELSE {}

\* Array.from(set).sort() on one-letter names
RECURSIVE SortedLetters(_)
SortedLetters(S) ==
    IF S = {} THEN <<>>
    ELSE LET m == CHOOSE x \in S : \A y \in S : LetterIndex(x) <= LetterIndex(y)
         IN <<m>> \o SortedLetters(S \ {m})

extractVariables(formula) == SortedLetters(variablesOf(formula))

RECURSIVE Pow2(_)
Pow2(n) == IF n = 0 THEN 1 ELSE 2 * Pow2(n - 1)

\* the complement of the bit
Bit_Inverted(i, j) == (i \div Pow2(j)) % 2 = 0

\* Boolean((i >> j) & 1), j counted from 0
Bit(i, j) == (i \div Pow2(j)) % 2 = 1

\* an enumeration that stops one counter value early
generateAssignments_OneShort(variables) ==
    [k \in 1..(Pow2(Len(variables)) - 1) |->
        [v \in {variables[j] : j \in 1..Len(variables)} |->
            Bit(k - 1, (CHOOSE j \in 1..Len(variables) : variables[j] = v) - 1)]]

generateAssignments(variables) ==
    [k \in 1..Pow2(Len(variables)) |->
        [v \in {variables[j] : j \in 1..Len(variables)} |->
            Bit(k - 1, (CHOOSE j \in 1..Len(variables) : variables[j] = v) - 1)]]

RECURSIVE evaluateFormula(_, _)
evaluateFormula(node, assignment) ==
    IF node.type = "variable" THEN assignment[node.value]
    ELSE IF node.type = "constant" THEN node.value = TOP
    ELSE IF node.type = "unary" THEN ~evaluateFormula(node.operand, assignment)
    ELSE LET left == evaluateFormula(node.left, assignment)
             right == evaluateFormula(node.right, assignment)
         IN IF node.operator = AND THEN left /\ right
            ELSE IF node.operator = OR THEN left \/ right
            ELSE IF node.operator = IMPLIES THEN ~left \/ right
            ELSE left = right

-----------------------------------------------------------------------------
(* TseytinTransformer.  An AST node object is identified by its path from  *)
(* the root (a sequence of steps 1 and 2): the parser builds one object    *)
(* per node, and nameMap is a Map keyed by object identity.                *)
(* An array element that may be a string or a node object is [str |-> s]   *)
(* or [obj |-> node].                                                      *)

Str(s) == [str |-> s]
Obj(n) == [obj |-> n]
IsString(x) == "str" \in DOMAIN x

RECURSIVE NodeAtPath(_, _)
NodeAtPath(node, path) ==
    IF path = <<>> THEN node
    ELSE IF node.type = "unary" THEN NodeAtPath(node.operand, Tail(path))
    ELSE NodeAtPath(IF Head(path) = 1 THEN node.left ELSE node.right, Tail(path))

needsName(node) ==
    \/ node.type = "binary"
    \/ /\ node.type = "unary"
       /\ node.operand.type # "variable"
       /\ node.operand.type # "constant"

\* a traversal that visits the left child's tree first
RECURSIVE traverse_LeftFirst(_, _)
traverse_LeftFirst(node, path) ==
    IF node.type = "binary"
    THEN traverse_LeftFirst(node.left, Append(path, 1))
         \o traverse_LeftFirst(node.right, Append(path, 2)) \o <<path>>
    ELSE IF node.type = "unary"
    THEN traverse_LeftFirst(node.operand, Append(path, 1)) \o <<path>>
    ELSE <<path>>

\* traverse: the rightmost child's tree, then the left siblings, then the node
RECURSIVE traverse(_, _)
traverse(node, path) ==
    IF node.type = "binary"
    THEN traverse(node.right, Append(path, 2)) \o traverse(node.left, Append(path, 1))
         \o <<path>>
    ELSE IF node.type = "unary"
    THEN traverse(node.operand, Append(path, 1)) \o <<path>>
    ELSE <<path>>

\* visitNode: a node is pushed unless JSON.stringify of it was seen before
RECURSIVE visitAll(_, _, _)
visitAll(paths, root, visited) ==
    IF paths = <<>> THEN <<>>
    ELSE LET node == NodeAtPath(root, Head(paths)) IN
         IF node \in visited THEN visitAll(Tail(paths), root, visited)
         ELSE <<Head(paths)>> \o visitAll(Tail(paths), root, visited \cup {node})

traverseTreeInSpecifiedOrder(root) ==
    SelectSeq(visitAll(traverse(root, <<>>), root, {}),
              LAMBDA p : needsName(NodeAtPath(root, p)))

RECURSIVE Decimal(_)
Decimal(k) == IF k < 10 THEN <<Digits[k + 1]>> ELSE Append(Decimal(k \div 10), Digits[(k % 10) + 1])

\* the name getNewVariable returns when this.nextVar = k
VariableName(k) == <<"n">> \o Decimal(k)

literalToString(x) ==
    IF IsString(x) THEN x
    ELSE IF x.obj.type = "variable" THEN Str(<<x.obj.value>>)
    ELSE IF x.obj.type = "unary" /\ x.obj.operator = NOT
            /\ x.obj.operand.type = "variable"
         THEN Str(<<"-", x.obj.operand.value>>)
    ELSE x

negateLiteral(x) ==
    LET literal == literalToString(x) IN
    IF IsString(literal)
    THEN IF StartsWith(literal.str, "-") THEN Str(Tail(literal.str))
         ELSE Str(<<"-">> \o literal.str)
    ELSE literal

\* nameMap.get(child) || child
NameOrNode(nameMap, root, path) ==
    IF path \in DOMAIN nameMap THEN Str(nameMap[path]) ELSE Obj(NodeAtPath(root, path))

defineVariable(name, root, path, nameMap) ==
    LET formula == NodeAtPath(root, path)
        pos == Str(name)
        neg == Str(<<"-">> \o name)
    IN IF formula.type = "unary" THEN
           LET operand == NameOrNode(nameMap, root, Append(path, 1)) IN
           << <<neg, negateLiteral(operand)>>, <<pos, literalToString(operand)>> >>
       ELSE LET left == NameOrNode(nameMap, root, Append(path, 1))
                right == NameOrNode(nameMap, root, Append(path, 2))
            IN IF formula.operator = AND THEN
                   << <<negateLiteral(left), negateLiteral(right), pos>> >>
               ELSE IF formula.operator = OR THEN
                   << <<literalToString(left), literalToString(right), neg>> >>
               ELSE IF formula.operator = IMPLIES THEN
                   << <<literalToString(right), negateLiteral(left), neg>> >>
               ELSE << <<negateLiteral(left), literalToString(right), neg>>,
                       <<literalToString(left), negateLiteral(right), neg>>,
                       <<literalToString(left), literalToString(right), pos>>,
                       <<negateLiteral(left), negateLiteral(right), pos>> >>

\* /^n\d+$/.test(v)
IsAuxName(v) ==
    Len(v) >= 2 /\ v[1] = "n" /\ \A i \in 2..Len(v) : IsDigit(v[i])

BaseVariable(lit) == IF StartsWith(lit, "-") THEN Tail(lit) ELSE lit

\* a comparator that never reorders
compareLiterals_KeepOrder(a, b) == 0

\* the comparator of sortLiteralsAlphabetically
compareLiterals(a, b) ==
    LET varA == BaseVariable(a)
        varB == BaseVariable(b)
    IN IF varA # varB THEN
           IF IsAuxName(varA) # IsAuxName(varB) THEN (IF IsAuxName(varA) THEN 1 ELSE -1)
           ELSE IF IsAuxName(varA) /\ IsAuxName(varB)
                THEN DecimalValue(Tail(varA), 0) - DecimalValue(Tail(varB), 0)
           ELSE localeCompare(varA, varB)
       ELSE IF StartsWith(a, "-") /\ ~StartsWith(b, "-") THEN 1
       ELSE IF ~StartsWith(a, "-") /\ StartsWith(b, "-") THEN -1
       ELSE 0

\* Array.prototype.sort is stable: x goes before the first element it precedes
RECURSIVE InsertLiteral(_, _)
InsertLiteral(sorted, x) ==
    IF sorted = <<>> THEN <<x>>
    ELSE IF compareLiterals(x.str, Head(sorted).str) < 0 THEN <<x>> \o sorted
    ELSE <<Head(sorted)>> \o InsertLiteral(Tail(sorted), x)

RECURSIVE SortLiterals(_)
SortLiterals(clause) ==
    IF clause = <<>> THEN <<>>
    ELSE InsertLiteral(SortLiterals(SubSeq(clause, 1, Len(clause) - 1)), clause[Len(clause)])

\* The comparator calls startsWith on both arguments: with two or more
\* elements, one of them a node object, it throws a TypeError.
sortThrows(clause) == Len(clause) >= 2 /\ \E i \in 1..Len(clause) : ~IsString(clause[i])

sortLiteralsAlphabetically(clause) == IF Len(clause) >= 2 THEN SortLiterals(clause) ELSE clause

\* String(x) of an array element inside join
ObjectObject == <<"[","o","b","j","e","c","t"," ","O","b","j","e","c","t","]">>
ElementText(x) == IF IsString(x) THEN x.str ELSE ObjectObject

clauseKey(clause) == Join([i \in 1..Len(clause) |-> ElementText(clause[i])], <<",">>)

\* removeRedundantClauses: the first clause of each key is kept, sorted
RECURSIVE uniqueByKey(_, _)
uniqueByKey(clauses, keys) ==
    IF clauses = <<>> THEN <<>>
    ELSE LET sortedClause == sortLiteralsAlphabetically(Head(clauses))
             key == clauseKey(sortedClause)
         IN IF key \in keys THEN uniqueByKey(Tail(clauses), keys)
            ELSE <<sortedClause>> \o uniqueByKey(Tail(clauses), keys \cup {key})

removeRedundantClauses(clauses) == uniqueByKey(clauses, {})

\* the naming loop of transform: the clauses defined for subformulas i..
RECURSIVE definingClauses(_, _, _, _)
definingClauses(root, subformulas, i, first) ==
    IF i > Len(subformulas) THEN <<>>
    ELSE LET nameMap == [p \in {subformulas[j] : j \in 1..i} |->
                            VariableName(first - 1 +
                                (CHOOSE j \in 1..i : subformulas[j] = p))]
         IN defineVariable(nameMap[subformulas[i]], root, subformulas[i], nameMap)
            \o definingClauses(root, subformulas, i + 1, first)

\* transform(formula), entered with this.nextVar = first
transform(formula, first) ==
    LET subformulas == traverseTreeInSpecifiedOrder(formula)
        named == SelectSeq(subformulas, LAMBDA p : needsName(NodeAtPath(formula, p)))
        auxVariables == [i \in 1..Len(named) |->
                            [variable |-> VariableName(first + i - 1),
                             represents |-> toText(NodeAtPath(formula, named[i]))]]
        topVar == IF Len(named) > 0 /\ named[Len(named)] = <<>>
                  THEN Str(VariableName(first + Len(named) - 1))
                  ELSE Obj(formula)
        clauses == Append(definingClauses(formula, named, 1, first),
                          <<literalToString(topVar)>>)
    IN IF \E i \in 1..Len(clauses) : sortThrows(clauses[i])
       THEN Throw("TypeError")
       ELSE LET uniqueClauses == removeRedundantClauses(clauses)
                formattedClauses == [i \in 1..Len(uniqueClauses) |->
                                        sortLiteralsAlphabetically(uniqueClauses[i])]
                clauseTexts == [i \in 1..Len(formattedClauses) |->
                                   <<"(">> \o clauseKey(formattedClauses[i]) \o <<")">>]
            IN [threw |-> FALSE,
                cnfFormula |-> Join([i \in 1..Len(uniqueClauses) |->
                                        <<"(">> \o Join([j \in 1..Len(uniqueClauses[i]) |->
                                                           ElementText(uniqueClauses[i][j])],
                                                        <<OR>>) \o <<")">>],
                                    <<AND>>),
                auxVariables |-> auxVariables,
                clauses |-> clauseTexts,
                formattedResult |-> Join(clauseTexts, <<";">>)]

\* TseytinTransformer.calculate: the counter is reset, then parse, then transform
TseytinTransformer_calculate(cfg) ==
    LET parsed == Parse(cfg.formula) IN
    IF Threw(parsed) THEN parsed
    ELSE LET r == transform(parsed.node, 0) IN
         IF Threw(r) THEN r
         ELSE [threw |-> FALSE,
               originalFormula |-> cfg.formula,
               cnfFormula |-> r.cnfFormula,
               auxVariables |-> r.auxVariables,
               clauses |-> r.clauses,
               formattedResult |-> r.formattedResult]

\* this.nextVar when calculate returns or throws: reset to 0, then one
\* getNewVariable call for each subformula named
TseytinTransformer_nextVarAfter(cfg) ==
    LET parsed == Parse(cfg.formula) IN
    IF Threw(parsed) THEN 0 ELSE Len(traverseTreeInSpecifiedOrder(parsed.node))

\* a calculate that leaves the counter where the last call left it
resetNextVar_Keep(before) == before

\* this.nextVar = 0 at the start of calculate, whatever it was before
resetNextVar(before) == 0

\* calculate on an instance whose counter stands at `before`
TseytinTransformer_calculateOn(cfg, before) ==
    LET parsed == Parse(cfg.formula) IN
    IF Threw(parsed) THEN parsed
    ELSE LET r == transform(parsed.node, resetNextVar(before)) IN
         IF Threw(r) THEN r
         ELSE [threw |-> FALSE,
               originalFormula |-> cfg.formula,
               cnfFormula |-> r.cnfFormula,
               auxVariables |-> r.auxVariables,
               clauses |-> r.clauses,
               formattedResult |-> r.formattedResult]

TseytinTransformer_nextVarOn(cfg, before) ==
    LET parsed == Parse(cfg.formula) IN
    IF Threw(parsed) THEN resetNextVar(before)
    ELSE resetNextVar(before) + Len(traverseTreeInSpecifiedOrder(parsed.node))

-----------------------------------------------------------------------------
(* Clause form: parseCNF (DeterminismChecker, GeneralDeterminismChecker)   *)
(* and parseToClauses (UnitPropagation).  A literal is a string, a clause  *)
(* an array of literals.                                                   *)

stripOuterParentheses(clause) ==
    IF StartsWith(clause, "(") /\ EndsWith(clause, ")") THEN SliceInner(clause) ELSE clause

parseCNF(formula) ==
    LET conjuncts == Split(formula, AND) IN
    [i \in 1..Len(conjuncts) |->
        LET parts == Split(stripOuterParentheses(Trim(conjuncts[i])), OR)
        IN [j \in 1..Len(parts) |-> Trim(parts[j])]]

parseToClauses(formula) ==
    LET conjuncts == Split(formula, AND) IN
    [i \in 1..Len(conjuncts) |->
        LET cleanClause == stripOuterParentheses(Trim(conjuncts[i])) IN
        IF Includes(cleanClause, OR)
        THEN LET parts == Split(cleanClause, OR) IN [j \in 1..Len(parts) |-> Trim(parts[j])]
        ELSE <<Trim(cleanClause)>>]

literalVariable(literal) == IF StartsWith(literal, NOT) THEN Tail(literal) ELSE literal
\* a value that is true for the negated literal
literalValue_Inverted(literal) == StartsWith(literal, NOT)

literalValue(literal) == ~StartsWith(literal, NOT)
negLiteralOf(literal) == IF StartsWith(literal, NOT) THEN Tail(literal) ELSE <<NOT>> \o literal

\* a search that looks at the first clause only
findUnitIndex_FirstOnly(clauses) ==
    IF Len(clauses) >= 1 /\ Len(clauses[1]) = 1 THEN 1 ELSE 0

\* clauses.find(c => c.length === 1), as an index; 0 when there is none
findUnitIndex(clauses) ==
    IF \E i \in 1..Len(clauses) : Len(clauses[i]) = 1
    THEN CHOOSE i \in 1..Len(clauses) :
             Len(clauses[i]) = 1 /\ \A j \in 1..(i - 1) : Len(clauses[j]) # 1
    ELSE 0

hasUnitClauses(clauses) == \E i \in 1..Len(clauses) : Len(clauses[i]) = 1

getAllVariables(clauses) ==
    UNION {{literalVariable(clauses[i][j]) : j \in 1..Len(clauses[i])} : i \in 1..Len(clauses)}

\* a removal that takes out the first occurrence only
RemoveLiteral_FirstOnly(clause, literal) ==
    IF ~Includes(clause, literal) THEN clause
    ELSE LET at == CHOOSE i \in 1..Len(clause) :
                       clause[i] = literal /\ \A j \in 1..(i - 1) : clause[j] # literal
         IN SubSeq(clause, 1, at - 1) \o SubSeq(clause, at + 1, Len(clause))

RemoveLiteral(clause, literal) == SelectSeq(clause, LAMBDA lit : lit # literal)

\* a propagation that keeps the clauses the literal satisfies
propagateLiteral_KeepSatisfied(clauses, literal) ==
    LET reduced == [i \in 1..Len(clauses) |-> RemoveLiteral(clauses[i], negLiteralOf(literal))]
    IN SelectSeq(reduced, LAMBDA c : Len(c) > 0)

\* the propagateLiteral of UnitPropagation and of GeneralDeterminismChecker:
\* satisfied clauses go, the complement is removed, emptied clauses are dropped
propagateLiteral(clauses, literal) ==
    LET kept == SelectSeq(clauses, LAMBDA c : ~Includes(c, literal))
        reduced == [i \in 1..Len(kept) |-> RemoveLiteral(kept[i], negLiteralOf(literal))]
    IN SelectSeq(reduced, LAMBDA c : Len(c) > 0)

NoAssignments == [v \in {} |-> TRUE]

-----------------------------------------------------------------------------
(* DeterminismChecker *)

\* sweepClauses with the emptied clauses dropped instead of kept
sweepClauses_DropEmpty(clauses, unitIndex, literal) ==
    LET others == SelectSeq([i \in 1..Len(clauses) |-> [at |-> i, clause |-> clauses[i]]],
                            LAMBDA e : e.at # unitIndex /\ ~Includes(e.clause, literal))
        reduced == [i \in 1..Len(others) |->
                       RemoveLiteral(others[i].clause, negLiteralOf(literal))]
    IN SelectSeq(reduced, LAMBDA c : Len(c) > 0)

\* One pass of the for loop over currentClauses: the chosen unit clause and
\* the clauses holding the literal are skipped, the complement is deleted.
sweepClauses(clauses, unitIndex, literal) ==
    LET others == SelectSeq([i \in 1..Len(clauses) |-> [at |-> i, clause |-> clauses[i]]],
                            LAMBDA e : e.at # unitIndex /\ ~Includes(e.clause, literal))
    IN [i \in 1..Len(others) |-> RemoveLiteral(others[i].clause, negLiteralOf(literal))]

\* the while loop of DeterminismChecker.performUnitPropagation
RECURSIVE propagationLoop(_, _, _)
propagationLoop(currentClauses, assignments, steps) ==
    LET unitIndex == findUnitIndex(currentClauses) IN
    IF unitIndex = 0
    THEN [isEmpty |-> FALSE, isContradiction |-> FALSE,
          remainingClauses |-> currentClauses, steps |-> steps, assignments |-> assignments]
    ELSE LET literal == currentClauses[unitIndex][1]
             variable == literalVariable(literal)
             value == literalValue(literal)
             steps2 == Append(steps, [literal |-> literal, value |-> value, variable |-> variable])
         IN IF variable \in DOMAIN assignments /\ assignments[variable] # value
            THEN [isEmpty |-> FALSE, isContradiction |-> TRUE,
                  remainingClauses |-> <<>>, steps |-> steps2, assignments |-> assignments]
            ELSE LET assignments2 == (variable :> value) @@ assignments
                     newClauses == sweepClauses(currentClauses, unitIndex, literal)
                 IN IF \E i \in 1..Len(newClauses) : Len(newClauses[i]) = 0
                    THEN [isEmpty |-> FALSE, isContradiction |-> TRUE,
                          remainingClauses |-> <<>>, steps |-> steps2,
                          assignments |-> assignments2]
                    ELSE IF Len(newClauses) = 0
                    THEN [isEmpty |-> TRUE, isContradiction |-> FALSE,
                          remainingClauses |-> <<>>, steps |-> steps2,
                          assignments |-> assignments2]
                    ELSE propagationLoop(newClauses, assignments2, steps2)

\* clauses.map(clause => new Set(clause)), then the loop
performUnitPropagation(clauses) ==
    propagationLoop([i \in 1..Len(clauses) |-> Unique(clauses[i])], NoAssignments, <<>>)

checkCNFDeterminism(formula) ==
    LET clauses == parseCNF(formula) IN
    IF ~hasUnitClauses(clauses)
    THEN [isDeterministic |-> FALSE, determinismResult |-> "noUnitClauses",
          explanation |-> "Unit propagation cannot be used within the formula"]
    ELSE LET propagationResult == performUnitPropagation(clauses) IN
         IF propagationResult.isEmpty
         THEN [isDeterministic |-> TRUE, determinismResult |-> "satisfiable",
               explanation |-> "Unit propagation determines that the formula is satisfiable"]
         ELSE IF propagationResult.isContradiction
         THEN [isDeterministic |-> TRUE, determinismResult |-> "unsatisfiable",
               explanation |-> "Unit propagation determines that the formula is unsatisfiable"]
         ELSE IF \A v \in getAllVariables(clauses) : v \in DOMAIN propagationResult.assignments
         THEN [isDeterministic |-> TRUE, determinismResult |-> "satisfiable",
               explanation |-> "Unit propagation determines that the formula is satisfiable"]
         ELSE [isDeterministic |-> FALSE, determinismResult |-> "undetermined",
               explanation |-> "Unit propagation can be used but cannot determine satisfiability"]

\* DeterminismChecker.checkGeneralDeterminism: the CNF check, reworded
checkGeneralDeterminism_viaCNF(formula) ==
    LET r == checkCNFDeterminism(formula) IN
    [r EXCEPT !.explanation =
        IF r.determinismResult = "noUnitClauses"
        THEN "Unit propagation cannot be used within this set of formulas"
        ELSE IF r.determinismResult = "satisfiable"
        THEN "Unit propagation determines that this set of formulas is satisfiable"
        ELSE IF r.determinismResult = "unsatisfiable"
        THEN "Unit propagation determines that this set of formulas is unsatisfiable"
        ELSE r.explanation]

getStatements(type) ==
    IF type = <<"c","n","f">>
    THEN <<"Unit propagation cannot be used within the formula",
           "Using only unit propagation exhaustively can determine that the formula is satisfiable",
           "Unit propagation can be used within the formula, but the satisfiability cannot be determined using only unit propagation",
           "Using only unit propagation exhaustively can determine that the formula is unsatisfiable">>
    ELSE <<"Satisfiability can be determined using only unit propagation",
           "Satisfiability cannot be determined using only unit propagation",
           "Unit propagation cannot be used within the formula">>

getCorrectStatementNumber(determinismResult, type) ==
    IF type = <<"c","n","f">>
    THEN IF determinismResult = "noUnitClauses" THEN 1
         ELSE IF determinismResult = "satisfiable" THEN 2
         ELSE IF determinismResult = "undetermined" THEN 3
         ELSE 4
    ELSE IF determinismResult \in {"satisfiable", "unsatisfiable"} THEN 1
         ELSE IF determinismResult = "undetermined" THEN 2
         ELSE 3

\* DeterminismChecker.calculate; an absent config.type (the empty string of
\* the model) defaults to 'cnf'
DeterminismChecker_calculate(cfg) ==
    LET type == IF cfg.type = <<>> THEN <<"c","n","f">> ELSE cfg.type
        r == IF type = <<"c","n","f">> THEN checkCNFDeterminism(cfg.formula)
             ELSE checkGeneralDeterminism_viaCNF(cfg.formula)
    IN [threw |-> FALSE,
        formula |-> cfg.formula,
        type |-> type,
        isDeterministic |-> r.isDeterministic,
        explanation |-> r.explanation,
        statements |-> getStatements(type),
        correctStatement |-> getCorrectStatementNumber(r.determinismResult, type),
        determinismResult |-> r.determinismResult]

-----------------------------------------------------------------------------
(* GeneralDeterminismChecker *)

RECURSIVE generalPropagationLoop(_, _, _)
generalPropagationLoop(currentClauses, assignments, steps) ==
    LET unitIndex == findUnitIndex(currentClauses) IN
    IF unitIndex = 0
    THEN [isEmpty |-> FALSE, isContradiction |-> FALSE,
          remainingClauses |-> currentClauses, steps |-> steps, assignments |-> assignments]
    ELSE LET literal == currentClauses[unitIndex][1]
             variable == literalVariable(literal)
             value == literalValue(literal)
             steps2 == Append(steps, [literal |-> literal, value |-> value, variable |-> variable])
         IN IF variable \in DOMAIN assignments /\ assignments[variable] # value
            THEN [isEmpty |-> FALSE, isContradiction |-> TRUE,
                  remainingClauses |-> <<>>, steps |-> steps2, assignments |-> assignments]
            ELSE LET assignments2 == (variable :> value) @@ assignments
                     newClauses == propagateLiteral(currentClauses, literal)
                 IN IF Len(newClauses) = 0
                    THEN [isEmpty |-> TRUE, isContradiction |-> FALSE,
                          remainingClauses |-> <<>>, steps |-> steps2,
                          assignments |-> assignments2]
                    ELSE generalPropagationLoop(newClauses, assignments2, steps2)

generalPerformUnitPropagation(clauses) ==
    generalPropagationLoop(clauses, NoAssignments, <<>>)

checkGeneralDeterminism(formula) ==
    LET clauses == parseCNF(formula) IN
    IF ~hasUnitClauses(clauses)
    THEN [isDeterministic |-> FALSE, determinismResult |-> "noUnitClauses",
          explanation |-> "Unit propagation cannot be used within the set of formulas"]
    ELSE LET propagationResult == generalPerformUnitPropagation(clauses) IN
         IF propagationResult.isEmpty
         THEN [isDeterministic |-> TRUE, determinismResult |-> "satisfiable",
               explanation |-> "Unit propagation determines that the set of formulas is satisfiable"]
         ELSE IF propagationResult.isContradiction
         THEN [isDeterministic |-> TRUE, determinismResult |-> "unsatisfiable",
               explanation |-> "Unit propagation determines that the set of formulas is unsatisfiable"]
         ELSE [isDeterministic |-> FALSE, determinismResult |-> "undetermined",
               explanation |-> "Unit propagation can be used but cannot determine satisfiability of the set of formulas"]

generalGetStatements ==
    <<"Satisfiability of S can be determined using only unit propagation",
      "Satifiability of S cannot be determined using only unit propagation",
      "Unit propagation cannot be used within S">>

generalGetCorrectStatementNumber(determinismResult) ==
    IF determinismResult \in {"satisfiable", "unsatisfiable"} THEN 1
    ELSE IF determinismResult = "undetermined" THEN 2
    ELSE 3

GeneralDeterminismChecker_calculate(cfg) ==
    LET r == checkGeneralDeterminism(cfg.formula) IN
    [threw |-> FALSE,
     formula |-> cfg.formula,
     type |-> <<"g","e","n","e","r","a","l">>,
     isDeterministic |-> r.isDeterministic,
     explanation |-> r.explanation,
     statements |-> generalGetStatements,
     correctStatement |-> generalGetCorrectStatementNumber(r.determinismResult),
     determinismResult |-> r.determinismResult]

-----------------------------------------------------------------------------
(* UnitPropagation *)

baseOf(literal) == IF StartsWith(literal, NOT) THEN Tail(literal) ELSE literal

RECURSIVE InsertByBase(_, _)
InsertByBase(sorted, x) ==
    IF sorted = <<>> THEN <<x>>
    ELSE IF localeCompare(baseOf(x), baseOf(Head(sorted))) < 0 THEN <<x>> \o sorted
    ELSE <<Head(sorted)>> \o InsertByBase(Tail(sorted), x)

RECURSIVE SortByBase(_)
SortByBase(clause) ==
    IF clause = <<>> THEN <<>>
    ELSE InsertByBase(SortByBase(SubSeq(clause, 1, Len(clause) - 1)), clause[Len(clause)])

\* a formatting that keeps the negation glyph
formatLiteral_KeepGlyph(lit) == lit

formatLiteral(lit) == IF StartsWith(lit, NOT) THEN <<"-">> \o Tail(lit) ELSE lit

formatResults(clauses, literals) ==
    LET propagated == [i \in 1..Len(literals) |-> <<"(">> \o formatLiteral(literals[i]) \o <<")">>]
        nonEmpty == SelectSeq(clauses, LAMBDA c : Len(c) > 0)
        remaining == [i \in 1..Len(nonEmpty) |->
                        LET sortedLiterals == SortByBase(nonEmpty[i])
                            formattedLiterals == [j \in 1..Len(sortedLiterals) |->
                                                    formatLiteral(sortedLiterals[j])]
                        IN <<"(">> \o Join(formattedLiterals, <<",">>) \o <<")">>]
    IN Join(propagated \o remaining, <<";">>)

joinClauses(clauses) == [i \in 1..Len(clauses) |-> Join(clauses[i], <<",">>)]

\* the while (true) loop of UnitPropagation.calculate
RECURSIVE unitPropagationLoop(_, _, _)
unitPropagationLoop(currentClauses, literals, steps) ==
    LET unitIndex == findUnitIndex(currentClauses) IN
    IF unitIndex = 0
    THEN [clauses |-> currentClauses, literals |-> literals, steps |-> steps]
    ELSE LET literal == currentClauses[unitIndex][1]
             after == propagateLiteral(currentClauses, literal)
         IN unitPropagationLoop(after,
                                IF Includes(literals, literal) THEN literals
                                ELSE Append(literals, literal),
                                Append(steps, [literal |-> literal,
                                               beforeClauses |-> joinClauses(currentClauses),
                                               afterClauses |-> joinClauses(after)]))

UnitPropagation_calculate(cfg) ==
    LET run == unitPropagationLoop(parseToClauses(cfg.formula), <<>>, <<>>)
        formattedResult == formatResults(run.clauses, run.literals)
    IN [threw |-> FALSE,
        formula |-> cfg.formula,
        steps |-> run.steps,
        finalClauses |-> joinClauses(run.clauses),
        literals |-> run.literals,
        formattedResult |-> formattedResult,
        result |-> formattedResult]

-----------------------------------------------------------------------------
(* PureAtomSimplifier *)

\* the traverse closure of collectVariablePolarities: the (variable,
\* polarity) pairs in the order the traversal records them
RECURSIVE polarityVisits(_, _)
polarityVisits(node, polarity) ==
    IF node.type = "variable" THEN <<[variable |-> node.value, polarity |-> polarity]>>
    ELSE IF node.type = "constant" THEN <<>>
    ELSE IF node.type = "unary"
    THEN IF node.operator = NOT THEN polarityVisits(node.operand, ~polarity) ELSE <<>>
    ELSE IF node.operator \in {AND, OR}
    THEN polarityVisits(node.left, polarity) \o polarityVisits(node.right, polarity)
    ELSE IF node.operator = IMPLIES
    THEN polarityVisits(node.left, ~polarity) \o polarityVisits(node.right, polarity)
    ELSE IF node.operator = EQUIV
    THEN polarityVisits(node.left, TRUE) \o polarityVisits(node.left, FALSE)
         \o polarityVisits(node.right, TRUE) \o polarityVisits(node.right, FALSE)
    ELSE <<>>

\* the Map of polarity Sets, as its keys in insertion order and a set per key
collectVariablePolarities(ast) ==
    LET visits == polarityVisits(ast, TRUE)
        keys == Unique([i \in 1..Len(visits) |-> visits[i].variable])
    IN [i \in 1..Len(keys) |->
          [variable |-> keys[i],
           polarities |-> {visits[j].polarity :
                             j \in {k \in 1..Len(visits) : visits[k].variable = keys[i]}}]]

\* pure atoms recorded with the opposite of the polarity they were seen with
findPureAtoms_Inverted(variablePolarities) ==
    LET pure == SelectSeq(variablePolarities, LAMBDA e : Cardinality(e.polarities) = 1)
    IN [i \in 1..Len(pure) |-> [variable |-> pure[i].variable,
                                polarity |-> FALSE \in pure[i].polarities]]

\* the Map variable -> polarity of the variables seen with one polarity
findPureAtoms(variablePolarities) ==
    LET pure == SelectSeq(variablePolarities, LAMBDA e : Cardinality(e.polarities) = 1)
    IN [i \in 1..Len(pure) |-> [variable |-> pure[i].variable,
                                polarity |-> TRUE \in pure[i].polarities]]

\* a folding in which an implication of two constants is always top
evaluateBinaryOperation_ImpliesTop(operator, leftValue, rightValue) ==
    IF operator = AND THEN Const(IF leftValue = TOP /\ rightValue = TOP THEN TOP ELSE BOT)
    ELSE IF operator = OR THEN Const(IF leftValue = TOP \/ rightValue = TOP THEN TOP ELSE BOT)
    ELSE IF operator = IMPLIES THEN Const(TOP)
    ELSE IF operator = EQUIV THEN Const(IF leftValue = rightValue THEN TOP ELSE BOT)
    ELSE Const(BOT)

evaluateBinaryOperation(operator, leftValue, rightValue) ==
    IF operator = AND THEN Const(IF leftValue = TOP /\ rightValue = TOP THEN TOP ELSE BOT)
    ELSE IF operator = OR THEN Const(IF leftValue = TOP \/ rightValue = TOP THEN TOP ELSE BOT)
    ELSE IF operator = IMPLIES
    THEN Const(IF leftValue = TOP /\ rightValue = BOT THEN BOT ELSE TOP)
    ELSE IF operator = EQUIV THEN Const(IF leftValue = rightValue THEN TOP ELSE BOT)
    ELSE Const(BOT)

IsConst(node, value) == node.type = "constant" /\ node.value = value

\* the switch on the operator shared by substituteNode and recursivelySimplify:
\* the rules for /\ and \/
foldConjunctionDisjunction(operator, l, r) ==
    IF operator = AND
    THEN IF IsConst(l, BOT) THEN Const(BOT)
         ELSE IF IsConst(l, TOP) THEN r
         ELSE IF IsConst(r, BOT) THEN Const(BOT)
         ELSE IF IsConst(r, TOP) THEN l
         ELSE Binary(operator, l, r)
    ELSE IF operator = OR
    THEN IF IsConst(l, TOP) THEN Const(TOP)
         ELSE IF IsConst(l, BOT) THEN r
         ELSE IF IsConst(r, TOP) THEN Const(TOP)
         ELSE IF IsConst(r, BOT) THEN l
         ELSE Binary(operator, l, r)
    ELSE Binary(operator, l, r)

\* the substituteNode closure of substituteAndSimplify
RECURSIVE substituteNode(_, _)
substituteNode(node, pureAtoms) ==
    IF node.type = "variable"
    THEN IF \E i \in 1..Len(pureAtoms) : pureAtoms[i].variable = node.value
         THEN LET i == CHOOSE k \in 1..Len(pureAtoms) : pureAtoms[k].variable = node.value
              IN Const(IF pureAtoms[i].polarity THEN TOP ELSE BOT)
         ELSE node
    ELSE IF node.type = "constant" THEN node
    ELSE IF node.type = "unary"
    THEN LET simplifiedOperand == substituteNode(node.operand, pureAtoms) IN
         IF simplifiedOperand.type = "constant"
         THEN Const(IF simplifiedOperand.value = TOP THEN BOT ELSE TOP)
         ELSE [type |-> "unary", operator |-> node.operator, operand |-> simplifiedOperand]
    ELSE LET l == substituteNode(node.left, pureAtoms)
             r == substituteNode(node.right, pureAtoms)
         IN IF l.type = "constant" /\ r.type = "constant"
            THEN evaluateBinaryOperation(node.operator, l.value, r.value)
            ELSE IF node.operator \in {AND, OR}
            THEN foldConjunctionDisjunction(node.operator, l, r)
            ELSE IF node.operator = IMPLIES
            THEN IF IsConst(l, BOT) THEN Const(TOP)
                 ELSE IF IsConst(l, TOP) THEN r
                 ELSE IF IsConst(r, TOP) THEN Const(TOP)
                 ELSE IF IsConst(r, BOT) THEN Unary(l)
                 ELSE Binary(node.operator, l, r)
            ELSE IF node.operator = EQUIV
            THEN IF IsConst(l, TOP) THEN r
                 ELSE IF IsConst(l, BOT) THEN Unary(r)
                 ELSE IF IsConst(r, TOP) THEN l
                 ELSE IF IsConst(r, BOT) THEN Unary(l)
                 ELSE Binary(node.operator, l, r)
            ELSE Binary(node.operator, l, r)

\* a second pass that returns its argument as it is
recursivelySimplify_None(node) == node

RECURSIVE recursivelySimplify(_)
recursivelySimplify(node) ==
    IF node.type \in {"constant", "variable"} THEN node
    ELSE IF node.type = "unary"
    THEN LET simplifiedOperand == recursivelySimplify(node.operand) IN
         IF simplifiedOperand.type = "constant"
         THEN Const(IF simplifiedOperand.value = TOP THEN BOT ELSE TOP)
         ELSE IF node.operator = NOT /\ simplifiedOperand.type = "unary"
                 /\ simplifiedOperand.operator = NOT
         THEN recursivelySimplify(simplifiedOperand.operand)
         ELSE [type |-> "unary", operator |-> node.operator, operand |-> simplifiedOperand]
    ELSE LET l == recursivelySimplify(node.left)
             r == recursivelySimplify(node.right)
         IN IF l.type = "constant" /\ r.type = "constant"
            THEN evaluateBinaryOperation(node.operator, l.value, r.value)
            ELSE foldConjunctionDisjunction(node.operator, l, r)

substituteAndSimplify(ast, pureAtoms) == recursivelySimplify(substituteNode(ast, pureAtoms))

\* simplifyPureAtoms catches every error of its body and answers with the
\* input formula and no pure atoms
simplifyPureAtoms(formula) ==
    LET parsed == Parse(formula) IN
    IF Threw(parsed)
    THEN [pureAtoms |-> <<>>, simplifiedFormula |-> formula, steps |-> <<>>,
          error |-> parsed.error]
    ELSE LET pureAtoms == findPureAtoms(collectVariablePolarities(parsed.node))
             simplifiedAst == substituteAndSimplify(parsed.node, pureAtoms)
         IN [pureAtoms |-> [i \in 1..Len(pureAtoms) |-> pureAtoms[i].variable],
             simplifiedFormula |-> IF simplifiedAst.type = "constant"
                                   THEN <<simplifiedAst.value>> ELSE toText(simplifiedAst),
             steps |-> <<>>,
             error |-> ""]

PureAtomSimplifier_calculate(cfg) ==
    LET r == simplifyPureAtoms(cfg.formula) IN
    [threw |-> FALSE,
     formula |-> cfg.formula,
     pureAtoms |-> r.pureAtoms,
     simplifiedFormula |-> r.simplifiedFormula,
     steps |-> r.steps]

-----------------------------------------------------------------------------
(* PolarityCalculator *)

\* the for loop of calculatePolarity: a flip when entering the left child of
\* an implication or the operand of a negation; the walk stops at a leaf
RECURSIVE polarityWalk(_, _, _)
polarityWalk(currentNode, steps, currentPolarity) ==
    IF steps = <<>> THEN currentPolarity
    ELSE LET step == Head(steps)
             flipped == IF \/ (currentNode.type = "binary" /\ currentNode.operator = IMPLIES
                               /\ step = 1)
                           \/ (currentNode.type = "unary" /\ currentNode.operator = NOT)
                        THEN -currentPolarity ELSE currentPolarity
         IN IF currentNode.type = "unary"
            THEN polarityWalk(currentNode.operand, Tail(steps), flipped)
            ELSE IF currentNode.type = "binary"
            THEN polarityWalk(IF step = 1 THEN currentNode.left ELSE currentNode.right,
                              Tail(steps), flipped)
            ELSE flipped

calculatePolarity(formula, position) ==
    IF position = <<>> THEN 1 ELSE polarityWalk(formula, positionSteps(position), 1)

\* a left child that always takes the polarity of its parent
leftPolarity_NoFlip(operator, currentPolarity) == currentPolarity

\* annotateTreeWithPolarity: the polarity handed to the left child
leftPolarity(operator, currentPolarity) ==
    IF operator = IMPLIES THEN -currentPolarity ELSE currentPolarity

\* annotateTreeWithPolarity: a copy of the tree whose nodes carry a polarity
\* and a position
RECURSIVE annotateTreeWithPolarity(_, _, _)
annotateTreeWithPolarity(formula, currentPolarity, position) ==
    IF formula.type = "unary"
    THEN [type |-> "unary", operator |-> formula.operator,
          operand |-> annotateTreeWithPolarity(
                          formula.operand,
                          IF formula.operator = NOT THEN -currentPolarity
                          ELSE currentPolarity,
                          IF position # <<>> THEN position \o <<".", "1">> ELSE <<"1">>),
          polarity |-> currentPolarity, position |-> position]
    ELSE IF formula.type = "binary"
    THEN [type |-> "binary", operator |-> formula.operator,
          left |-> annotateTreeWithPolarity(
                       formula.left, leftPolarity(formula.operator, currentPolarity),
                       IF position # <<>> THEN position \o <<".", "1">> ELSE <<"1">>),
          right |-> annotateTreeWithPolarity(
                        formula.right, currentPolarity,
                        IF position # <<>> THEN position \o <<".", "2">> ELSE <<"2">>),
          polarity |-> currentPolarity, position |-> position]
    ELSE [type |-> formula.type, value |-> formula.value,
          polarity |-> currentPolarity, position |-> position]

\* calculate: the statements that parse the formula and compute polarityValue
\* are inside a block comment, so the first statement that runs reads the
\* undeclared identifier polarityValue and a ReferenceError is thrown, for
\* every config.
PolarityCalculator_calculate(cfg) == Throw("ReferenceError")

-----------------------------------------------------------------------------
(* SatisfiabilityChecker.calculate and TruthTableGenerator.calculate *)

SatisfiabilityChecker_calculate(cfg) ==
    LET parsed == Parse(cfg.formula) IN
    IF Threw(parsed) THEN parsed
    ELSE LET assignments == generateAssignments(extractVariables(parsed.node))
             satisfying == SelectSeq(assignments,
                                     LAMBDA a : evaluateFormula(parsed.node, a))
             trueCount == Len(satisfying)
         IN [threw |-> FALSE,
             status |-> IF trueCount = 0 THEN "unsatisfiable"
                        ELSE IF trueCount = Len(assignments) THEN "valid"
                        ELSE "satisfiable",
             formula |-> cfg.formula,
             model |-> IF trueCount = 0 THEN NULL ELSE satisfying[1]]

TruthTableGenerator_calculate(cfg) ==
    LET parsed == Parse(cfg.formula) IN
    IF Threw(parsed) THEN parsed
    ELSE LET variables == extractVariables(parsed.node)
             assignments == generateAssignments(variables)
         IN [threw |-> FALSE,
             variables |-> variables,
             rows |-> [i \in 1..Len(assignments) |->
                         [assignment |-> assignments[i],
                          result |-> evaluateFormula(parsed.node, assignments[i])]],
             formula |-> cfg.formula]

-----------------------------------------------------------------------------
(* InterpretationTester *)

\* the upper-case letters of the model's strings
UpperCase == {"A", "I"}
IsLetter(ch) == IsLower(ch) \/ ch \in UpperCase
IsIdentifier(name) ==
    /\ Len(name) >= 1
    /\ IsLetter(name[1])
    /\ \A i \in 2..Len(name) : IsLetter(name[i]) \/ IsDigit(name[i])

\* /^I\s*<glyph>\s*(~?)([a-zA-Z][a-zA-Z0-9]*)$/ : the two groups, or no match
interpretationMatch(interpretation, glyph) ==
    IF Len(interpretation) = 0 \/ Head(interpretation) # "I" THEN [matched |-> FALSE]
    ELSE LET afterI == TrimLeft(Tail(interpretation)) IN
         IF Len(afterI) = 0 \/ Head(afterI) # glyph THEN [matched |-> FALSE]
         ELSE LET rest == TrimLeft(Tail(afterI))
                  negated == Len(rest) > 0 /\ Head(rest) = NOT
                  name == IF negated THEN Tail(rest) ELSE rest
              IN IF IsIdentifier(name)
                 THEN [matched |-> TRUE, isNegated |-> negated, variable |-> name]
                 ELSE [matched |-> FALSE]

\* the assignment object holds one variable
parseInterpretation(interpretation) ==
    LET interpMatch == interpretationMatch(interpretation, MODELS)
        interpNegMatch == interpretationMatch(interpretation, NOTMODELS)
    IN IF interpMatch.matched
       THEN [threw |-> FALSE, variable |-> interpMatch.variable,
             value |-> ~interpMatch.isNegated]
       ELSE IF interpNegMatch.matched
       THEN [threw |-> FALSE, variable |-> interpNegMatch.variable,
             value |-> interpNegMatch.isNegated]
       ELSE Throw("Invalid interpretation format")

\* a unary node as InterpretationTester builds it: without an operator field
Negation(x) == [type |-> "unary", operand |-> x]

RECURSIVE substituteVariables(_, _)
substituteVariables(ast, assignment) ==
    IF ast.type = "variable"
    THEN IF <<ast.value>> = assignment.variable
         THEN Const(IF assignment.value THEN TOP ELSE BOT)
         ELSE ast
    ELSE IF ast.type = "constant" THEN ast
    ELSE IF ast.type = "unary" THEN Negation(substituteVariables(ast.operand, assignment))
    ELSE Binary(ast.operator, substituteVariables(ast.left, assignment),
                substituteVariables(ast.right, assignment))

\* a comparison that looks at the node types only
areAstsEqual_TypeOnly(ast1, ast2) == ast1.type = ast2.type

\* a comparison that finds every two trees different
areAstsEqual_Never(ast1, ast2) == FALSE

RECURSIVE areAstsEqual(_, _)
areAstsEqual(ast1, ast2) ==
    IF ast1.type # ast2.type THEN FALSE
    ELSE IF ast1.type \in {"variable", "constant"} THEN ast1.value = ast2.value
    ELSE IF ast1.type = "unary" THEN areAstsEqual(ast1.operand, ast2.operand)
    ELSE IF ast1.type = "binary"
    THEN /\ ast1.operator = ast2.operator
         /\ areAstsEqual(ast1.left, ast2.left)
         /\ areAstsEqual(ast1.right, ast2.right)
    ELSE FALSE

RECURSIVE simplifyFormulaStep(_)
simplifyFormulaStep(ast) ==
    IF ast.type = "unary"
    THEN LET operand == simplifyFormulaStep(ast.operand)
             simplifiedAst == [ast EXCEPT !.operand = operand]
         IN IF operand.type = "constant"
            THEN Const(IF operand.value = TOP THEN BOT ELSE TOP)
            ELSE IF operand.type = "unary" THEN operand.operand
            ELSE IF operand.type = "binary"
            THEN IF operand.operator = AND
                 THEN simplifyFormulaStep(Binary(OR, Negation(operand.left),
                                                 Negation(operand.right)))
                 ELSE IF operand.operator = OR
                 THEN simplifyFormulaStep(Binary(AND, Negation(operand.left),
                                                 Negation(operand.right)))
                 ELSE IF operand.operator = IMPLIES
                 THEN simplifyFormulaStep(Binary(AND, operand.left, Negation(operand.right)))
                 ELSE IF operand.operator = EQUIV
                 THEN simplifyFormulaStep(
                          Binary(OR,
                                 Binary(AND, operand.left, Negation(operand.right)),
                                 Binary(AND, Negation(operand.left), operand.right)))
                 ELSE simplifiedAst
            ELSE simplifiedAst
    ELSE IF ast.type = "binary"
    THEN LET left == simplifyFormulaStep(ast.left)
             right == simplifyFormulaStep(ast.right)
             op == ast.operator
             simplifiedAst == [ast EXCEPT !.left = left, !.right = right]
         IN IF op = AND
            THEN IF IsConst(left, BOT) \/ IsConst(right, BOT) THEN Const(BOT)
                 ELSE IF IsConst(left, TOP) THEN right
                 ELSE IF IsConst(right, TOP) THEN left
                 ELSE IF areAstsEqual(left, right) THEN left
                 ELSE simplifiedAst
            ELSE IF op = OR
            THEN IF IsConst(left, TOP) \/ IsConst(right, TOP) THEN Const(TOP)
                 ELSE IF IsConst(left, BOT) THEN right
                 ELSE IF IsConst(right, BOT) THEN left
                 ELSE IF areAstsEqual(left, right) THEN left
                 ELSE IF \/ (right.type = "unary" /\ areAstsEqual(left, right.operand))
                         \/ (left.type = "unary" /\ areAstsEqual(right, left.operand))
                 THEN Const(TOP)
                 ELSE simplifiedAst
            ELSE IF op = IMPLIES
            THEN IF IsConst(left, BOT) \/ IsConst(right, TOP) THEN Const(TOP)
                 ELSE IF IsConst(left, TOP) THEN right
                 ELSE IF IsConst(right, BOT) THEN simplifyFormulaStep(Negation(left))
                 ELSE IF areAstsEqual(left, right) THEN Const(TOP)
                 ELSE simplifyFormulaStep(Binary(OR, Negation(left), right))
            ELSE IF op = EQUIV
            THEN IF left.type = "constant"
                 THEN IF left.value = TOP THEN right
                      ELSE simplifyFormulaStep(Negation(right))
                 ELSE IF right.type = "constant"
                 THEN IF right.value = TOP THEN left
                      ELSE simplifyFormulaStep(Negation(left))
                 ELSE IF areAstsEqual(left, right) THEN Const(TOP)
                 ELSE simplifyFormulaStep(
                          Binary(OR,
                                 Binary(AND, left, right),
                                 Binary(AND, Negation(left), Negation(right))))
            ELSE simplifiedAst
    ELSE ast

maxSimplificationIterations == 20

\* the while loop of simplifyFormula: a step is repeated while it changes
\* the tree and the cap is not reached
RECURSIVE simplifyLoop(_, _)
simplifyLoop(currentAst, iterations) ==
    IF iterations >= maxSimplificationIterations THEN currentAst
    ELSE LET simplified == simplifyFormulaStep(currentAst) IN
         IF areAstsEqual(simplified, currentAst) THEN currentAst
         ELSE simplifyLoop(simplified, iterations + 1)

simplifyFormula(ast) == simplifyLoop(ast, 0)

\* the value of `iterations` when the while loop of simplifyFormula exits
RECURSIVE simplifyIterations(_, _)
simplifyIterations(currentAst, iterations) ==
    IF iterations >= maxSimplificationIterations THEN iterations
    ELSE IF areAstsEqual(simplifyFormulaStep(currentAst), currentAst) THEN iterations + 1
    ELSE simplifyIterations(simplifyFormulaStep(currentAst), iterations + 1)

RECURSIVE astToString(_)
astToString(ast) ==
    IF ast.type \in {"variable", "constant"} THEN <<ast.value>>
    ELSE IF ast.type = "unary"
    THEN IF ast.operand.type \in {"binary", "unary"}
         THEN <<NOT, "(">> \o astToString(ast.operand) \o <<")">>
         ELSE <<NOT>> \o astToString(ast.operand)
    ELSE <<"(">> \o astToString(ast.left) \o <<" ", ast.operator, " ">>
         \o astToString(ast.right) \o <<")">>

\* str.replace(/A/g, replacement)
RECURSIVE replaceA(_, _)
replaceA(str, replacement) ==
    IF str = <<>> THEN <<>>
    ELSE (IF Head(str) = "A" THEN replacement ELSE <<Head(str)>>)
         \o replaceA(Tail(str), replacement)

\* the composite evaluateStatement reduces: the statement's logical part with
\* A replaced, parsed, the assignment applied, simplified
compositeOf(logicalPart, simplifiedFormula, assignment) ==
    LET substitutedFormula ==
            replaceA(logicalPart, <<"(">> \o astToString(simplifiedFormula) \o <<")">>)
        parsedSubstituted == Parse(substitutedFormula)
    IN IF Threw(parsedSubstituted) THEN Throw("Error evaluating statement")
       ELSE [threw |-> FALSE,
             node |-> simplifyFormula(substituteVariables(parsedSubstituted.node,
                                                          assignment))]

evaluateStatement(statement, simplifiedFormula, assignment) ==
    LET stripped == SelectSeq(statement, LAMBDA ch : ch # " ") IN
    IF ~(Len(stripped) >= 3 /\ stripped[1] = "I" /\ stripped[2] \in {MODELS, NOTMODELS})
    THEN Throw("Invalid statement format")
    ELSE LET isPositiveStatement == stripped[2] = MODELS
             finalResult == compositeOf(SubSeq(stripped, 3, Len(stripped)),
                                        simplifiedFormula, assignment)
         IN IF Threw(finalResult) THEN finalResult
            ELSE LET isTrue == IsConst(finalResult.node, TOP)
                 IN [threw |-> FALSE,
                     value |-> IF isPositiveStatement THEN isTrue ELSE ~isTrue]

InterpretationTester_calculate(cfg) ==
    LET assignment == parseInterpretation(cfg.interpretation) IN
    IF Threw(assignment) THEN assignment
    ELSE LET parsedFormula == Parse(cfg.formula) IN
         IF Threw(parsedFormula) THEN parsedFormula
         ELSE LET simplifiedFormula ==
                      simplifyFormula(substituteVariables(parsedFormula.node, assignment))
                  isValid == evaluateStatement(cfg.statement, simplifiedFormula, assignment)
              IN IF Threw(isValid) THEN isValid
                 ELSE [threw |-> FALSE,
                       formula |-> cfg.formula,
                       interpretation |-> cfg.interpretation,
                       statement |-> cfg.statement,
                       isValid |-> isValid.value]

-----------------------------------------------------------------------------
(* Bounded inputs *)

MaxStrLen == 4      \* raw formula strings: every string up to this length
MaxNodes == 5       \* rendered formulas: every AST up to this many nodes
MaxPosLen == 3      \* position strings: every string up to this length

BinaryOps == {AND, OR, IMPLIES, EQUIV}

RECURSIVE StringsUpTo(_, _)
StringsUpTo(alphabet, n) ==
    IF n = 0 THEN {<<>>}
    ELSE LET shorter == StringsUpTo(alphabet, n - 1) IN
         shorter \cup {Append(s, ch) : s \in {t \in shorter : Len(t) = n - 1},
                                       ch \in alphabet}

RECURSIVE TreesOfSize(_, _, _)
TreesOfSize(leaves, ops, n) ==
    IF n = 1 THEN leaves
    ELSE {Unary(t) : t \in TreesOfSize(leaves, ops, n - 1)}
         \cup UNION {UNION {{Binary(op, l, r) :
                                l \in TreesOfSize(leaves, ops, k),
                                r \in TreesOfSize(leaves, ops, n - 1 - k)} :
                            k \in 1..(n - 2)} : op \in ops}

TreesUpTo(leaves, ops, n) == UNION {TreesOfSize(leaves, ops, k) : k \in 1..n}

RawAlphabet == {"a", "b", TOP, NOT, AND, OR, IMPLIES, EQUIV, "(", ")", " "}
RawStrings == StringsUpTo(RawAlphabet, MaxStrLen)

Leaves == {Var("a"), Var("b"), Const(TOP)}
RenderedFormulas == {toText(t) : t \in TreesUpTo(Leaves, BinaryOps, MaxNodes)}

\* typed by hand: without parentheses, so that precedence and left association
\* decide, and with the right operand grouped explicitly
ChainedFormulas ==
    {<<x, op1, y, op2, z>> : x \in {"a", "b"}, y \in {"a", "b"}, z \in {"a", "b"},
                             op1 \in BinaryOps, op2 \in BinaryOps}
GroupedFormulas ==
    {<<x, op1, "(", y, op2, z, ")">> : x \in {"a", "b"}, y \in {"a", "b"}, z \in {"a", "b"},
                                       op1 \in BinaryOps, op2 \in BinaryOps}
TypedFormulas == ChainedFormulas \cup GroupedFormulas

MaxHalfNodes == 3   \* paired formulas: both operands up to this many nodes
PairedFormulas ==
    {toText(Binary(op, l, r)) :
        op \in BinaryOps,
        l \in TreesUpTo({Var("a"), Var("b")}, BinaryOps, MaxHalfNodes),
        r \in TreesUpTo({Var("a"), Var("b")}, BinaryOps, MaxHalfNodes)}

PositionAlphabet == {"1", "2", "3", "."}
PositionStrings == StringsUpTo(PositionAlphabet, MaxPosLen)

NoResult == [threw |-> FALSE]

Config(f, p, i, s, t) ==
    [formula |-> f, position |-> p, interpretation |-> i, statement |-> s, type |-> t]

-----------------------------------------------------------------------------
(* Subformula extraction: the state machine *)

InitSubformula ==
    /\ \/ \E f \in RawStrings \cup RenderedFormulas \cup TypedFormulas :
              config = Config(f, <<>>, <<>>, <<>>, <<>>)
       \/ \E f \in {toText(t) : t \in TreesUpTo(Leaves, BinaryOps, 3)},
             p \in PositionStrings :
              config = Config(f, p, <<>>, <<>>, <<>>)
    /\ called = "none"
    /\ result = NoResult
    /\ nextVar = 0

SubformulaCalculate ==
    /\ called = "none"
    /\ called' = "subformula"
    /\ result' = SubformulaExtractor_calculate(config)
    /\ UNCHANGED <<config, nextVar>>

NextSubformula == SubformulaCalculate

SpecSubformula == InitSubformula /\ [][NextSubformula]_vars

-----------------------------------------------------------------------------
(* Claims about the parser, the formatter and position addressing *)

\* C3: for every well-formed formula string, re-parsing the text rendering of
\* its AST gives back the same AST, node for node.
C3_RoundTrip ==
    (called = "subformula" /\ ~Threw(result) /\ config.position = <<>>)
        => LET again == Parse(result.subformula) IN
           ~Threw(again) /\ again.node = result.tree

\* a nested formula whose rendering differs from the string that was typed
C3_Witness ==
    /\ called = "subformula" /\ ~Threw(result) /\ config.position = <<>>
    /\ result.subformula # config.formula
    /\ result.tree.type = "binary"
    /\ result.tree.left.type = "binary"
    /\ Parse(result.subformula).node = result.tree

\* The positions the specification calls valid: the empty string, or steps 1
\* and 2 separated by dots, each resolving to a child that exists.
IsStepString(part) == part = <<"1">> \/ part = <<"2">>

RECURSIVE Resolve(_, _)
Resolve(tree, parts) ==
    IF parts = <<>> THEN tree
    ELSE IF tree.type = "unary" /\ Head(parts) = <<"1">>
         THEN Resolve(tree.operand, Tail(parts))
    ELSE IF tree.type = "binary" /\ Head(parts) = <<"1">>
         THEN Resolve(tree.left, Tail(parts))
    ELSE IF tree.type = "binary" /\ Head(parts) = <<"2">>
         THEN Resolve(tree.right, Tail(parts))
    ELSE NULL

NodeAt(tree, position) ==
    IF position = <<>> THEN tree
    ELSE LET parts == Split(position, ".") IN
         IF \A i \in 1..Len(parts) : IsStepString(parts[i])
         THEN Resolve(tree, parts) ELSE NULL

ValidPosition(tree, position) == NodeAt(tree, position) # NULL

\* C8: getSubformulaAtPosition returns the resolved node for every valid
\* position and not-found for every other position (a step that is not 1 or
\* 2, step 2 on a Unary, any step from a leaf).
C8_ValidOrNotFound ==
    (called = "subformula" /\ ~Threw(Parse(config.formula)))
        => LET tree == Parse(config.formula).node IN
           IF ValidPosition(tree, config.position)
           THEN ~Threw(result)
                /\ result.subformula = toText(NodeAt(tree, config.position))
           ELSE Threw(result) /\ result.error = "Invalid position"

-----------------------------------------------------------------------------
(* Tseytin transformation: the state machine *)

InitTseytin ==
    /\ \E f \in RenderedFormulas \cup PairedFormulas :
           config = Config(f, <<>>, <<>>, <<>>, <<>>)
    /\ called = "none"
    /\ result = NoResult
    /\ nextVar = 0

TseytinCalculate ==
    /\ called = "none"
    /\ called' = "tseytin"
    /\ result' = TseytinTransformer_calculate(config)
    /\ nextVar' = TseytinTransformer_nextVarAfter(config)
    /\ UNCHANGED config

NextTseytin == TseytinCalculate

SpecTseytin == InitTseytin /\ [][NextTseytin]_vars

-----------------------------------------------------------------------------
(* Claims about the Tseytin transformation *)

Satisfiable(node) ==
    LET assignments == generateAssignments(extractVariables(node)) IN
    \E i \in 1..Len(assignments) : evaluateFormula(node, assignments[i])

RECURSIVE HasConstant(_)
HasConstant(node) ==
    IF node.type = "constant" THEN TRUE
    ELSE IF node.type = "variable" THEN FALSE
    ELSE IF node.type = "unary" THEN HasConstant(node.operand)
    ELSE HasConstant(node.left) \/ HasConstant(node.right)

\* the literals of a clause text "(l1,l2,...)"
ClauseLiterals(text) == Split(SubSeq(text, 2, Len(text) - 1), ",")

\* a clause list is satisfiable iff some set of true names satisfies a literal
\* of every clause; every name of the clause list is quantified over
ClausesSatisfiable(clauseTexts) ==
    LET clauses == {ClauseLiterals(clauseTexts[i]) : i \in 1..Len(clauseTexts)}
        names == UNION {{BaseVariable(c[j]) : j \in 1..Len(c)} : c \in clauses}
    IN \E true \in SUBSET names :
           \A c \in clauses :
               \E j \in 1..Len(c) :
                   IF StartsWith(c[j], "-") THEN BaseVariable(c[j]) \notin true
                   ELSE c[j] \in true

\* C1: the formula is satisfiable iff the clause list the transformer produced
\* for it is satisfiable (auxiliary names existentially quantified).  Stated
\* for the constant-free formulas on which the transformer returns.
C1_Equisatisfiable ==
    (called = "tseytin" /\ ~Threw(result))
        => LET tree == Parse(config.formula).node IN
           ~HasConstant(tree) => (Satisfiable(tree) <=> ClausesSatisfiable(result.clauses))

PathsOf(tree) == {traverse(tree, <<>>)[i] : i \in 1..Len(traverse(tree, <<>>))}

\* some non-literal subformula occurs at two positions
HasRepeatedSubformula(tree) ==
    \E p, q \in PathsOf(tree) :
        p # q /\ NodeAtPath(tree, p) = NodeAtPath(tree, q) /\ needsName(NodeAtPath(tree, p))

DistinctNamedSubformulas(tree) ==
    {NodeAtPath(tree, p) : p \in {q \in PathsOf(tree) : needsName(NodeAtPath(tree, q))}}

IsLiteralText(lit, count) ==
    LET v == BaseVariable(lit) IN
    \/ Len(v) = 1 /\ IsLower(v[1])
    \/ \E k \in 0..(count - 1) : v = VariableName(k)

\* C7: with a non-literal subformula occurring at several positions the
\* transformation completes, names each distinct subformula once, and every
\* clause consists of literal strings over the variables and those names.
C7_DuplicatesShareName ==
    (called = "tseytin" /\ ~Threw(Parse(config.formula)))
        => LET tree == Parse(config.formula).node IN
           (~HasConstant(tree) /\ HasRepeatedSubformula(tree))
               => /\ ~Threw(result)
                  /\ Len(result.auxVariables) = Cardinality(DistinctNamedSubformulas(tree))
                  /\ \A i \in 1..Len(result.clauses) :
                         LET c == ClauseLiterals(result.clauses[i]) IN
                         \A j \in 1..Len(c) : IsLiteralText(c[j], Len(result.auxVariables))


-----------------------------------------------------------------------------
(* Clause-form inputs: every clause list with up to MaxLiterals literals   *)
(* in all, written as the conjunction of its clauses                       *)

MaxLiterals == 4    \* clause lists: up to this many literal occurrences

CnfLiterals == {<<"a">>, <<NOT, "a">>, <<"b">>, <<NOT, "b">>}

RECURSIVE LiteralSeqs(_)
LiteralSeqs(n) ==
    IF n = 0 THEN {<<>>}
    ELSE {Append(c, l) : c \in LiteralSeqs(n - 1), l \in CnfLiterals}

RECURSIVE ClauseListsOfSize(_)
ClauseListsOfSize(n) ==
    IF n = 0 THEN {<<>>}
    ELSE UNION {{<<c>> \o rest : c \in LiteralSeqs(k), rest \in ClauseListsOfSize(n - k)} :
                k \in 1..n}

RenderClause(clause, parenthesizeUnits) ==
    IF Len(clause) = 1 /\ ~parenthesizeUnits THEN clause[1]
    ELSE <<"(">> \o Join(clause, <<OR>>) \o <<")">>

RenderCnf(clauses, parenthesizeUnits) ==
    Join([i \in 1..Len(clauses) |-> RenderClause(clauses[i], parenthesizeUnits)], <<AND>>)

CnfFormulas ==
    {RenderCnf(clauses, p) :
        clauses \in UNION {ClauseListsOfSize(n) : n \in 1..MaxLiterals},
        p \in BOOLEAN}

TypeCnf == <<"c", "n", "f">>
TypeGeneral == <<"g", "e", "n", "e", "r", "a", "l">>
DeterminismTypes == {<<>>, TypeCnf, TypeGeneral}

-----------------------------------------------------------------------------
(* Unit propagation and determinism: the state machine *)

InitDeterminism ==
    /\ \E f \in CnfFormulas : config = Config(f, <<>>, <<>>, <<>>, <<>>)
    /\ called = "none"
    /\ result = NoResult
    /\ nextVar = 0

DeterminismCalculate ==
    /\ called = "none"
    /\ called' = "determinism"
    /\ \E t \in DeterminismTypes :
           /\ config' = [config EXCEPT !.type = t]
           /\ result' = DeterminismChecker_calculate([config EXCEPT !.type = t])
    /\ UNCHANGED nextVar

GeneralDeterminismCalculate ==
    /\ called = "none"
    /\ called' = "generalDeterminism"
    /\ result' = GeneralDeterminismChecker_calculate(config)
    /\ UNCHANGED <<config, nextVar>>

UnitPropagationCalculate ==
    /\ called = "none"
    /\ called' = "unitPropagation"
    /\ result' = UnitPropagation_calculate(config)
    /\ UNCHANGED <<config, nextVar>>

NextDeterminism ==
    \/ DeterminismCalculate
    \/ GeneralDeterminismCalculate
    \/ UnitPropagationCalculate

SpecDeterminism == InitDeterminism /\ [][NextDeterminism]_vars

-----------------------------------------------------------------------------
(* Claims about the determinism classifiers *)

\* The clause list a clause-form input denotes, read off its syntax tree:
\* the conjuncts of the formula, each the list of its disjuncts.
RECURSIVE Conjuncts(_)
Conjuncts(node) ==
    IF node.type = "binary" /\ node.operator = AND
    THEN Conjuncts(node.left) \o Conjuncts(node.right) ELSE <<node>>

RECURSIVE Disjuncts(_)
Disjuncts(node) ==
    IF node.type = "binary" /\ node.operator = OR
    THEN Disjuncts(node.left) \o Disjuncts(node.right) ELSE <<node>>

IsLiteralNode(node) ==
    \/ node.type = "variable"
    \/ (node.type = "unary" /\ node.operand.type = "variable")

LiteralOf(node) ==
    IF node.type = "variable" THEN <<node.value>> ELSE <<NOT, node.operand.value>>

IsClauseForm(formula) ==
    LET parsed == Parse(formula) IN
    /\ ~Threw(parsed)
    /\ \A i \in 1..Len(Conjuncts(parsed.node)) :
           LET ds == Disjuncts(Conjuncts(parsed.node)[i]) IN
           \A j \in 1..Len(ds) : IsLiteralNode(ds[j])

ClausesOf(formula) ==
    LET cs == Conjuncts(Parse(formula).node) IN
    [i \in 1..Len(cs) |-> LET ds == Disjuncts(cs[i]) IN
                          [j \in 1..Len(ds) |-> LiteralOf(ds[j])]]

\* Exhaustive unit propagation, stated without an order of steps: the implied
\* literals are the least set holding every literal whose clause has all its
\* other literals falsified.
Complement(l) == IF Head(l) = NOT THEN Tail(l) ELSE <<NOT>> \o l
LiteralsIn(clause) == {clause[j] : j \in 1..Len(clause)}
Falsified(l, S) == Complement(l) \in S

RECURSIVE ImpliedLiterals(_, _)
ImpliedLiterals(clauses, S) ==
    LET more == S \cup {l \in UNION {LiteralsIn(clauses[i]) : i \in 1..Len(clauses)} :
                          \E i \in 1..Len(clauses) :
                              /\ l \in LiteralsIn(clauses[i])
                              /\ \A m \in LiteralsIn(clauses[i]) \ {l} : Falsified(m, S)}
    IN IF more = S THEN S ELSE ImpliedLiterals(clauses, more)

PropagationOutcome(clauses) ==
    LET S == ImpliedLiterals(clauses, {}) IN
    IF \E i \in 1..Len(clauses) : \A m \in LiteralsIn(clauses[i]) : Falsified(m, S)
    THEN "contradiction"
    ELSE IF \A i \in 1..Len(clauses) : LiteralsIn(clauses[i]) \cap S # {}
    THEN "empty"
    ELSE "stalled"

VariableOf(l) == IF Head(l) = NOT THEN Tail(l) ELSE l

ExpectedVerdict(clauses) ==
    LET outcome == PropagationOutcome(clauses)
        S == ImpliedLiterals(clauses, {})
        allVars == UNION {{VariableOf(l) : l \in LiteralsIn(clauses[i])} :
                             i \in 1..Len(clauses)}
    IN IF ~\E i \in 1..Len(clauses) : Len(clauses[i]) = 1 THEN "noUnitClauses"
       ELSE IF outcome = "empty" THEN "satisfiable"
       ELSE IF outcome = "contradiction" THEN "unsatisfiable"
       ELSE IF \A v \in allVars : \E l \in S : VariableOf(l) = v THEN "satisfiable"
       ELSE "undetermined"

\* C5: the CNF classifier's verdict is the one the propagation outcome
\* fixes: noUnitClauses without a clause of size 1, satisfiable when
\* propagation ends with no clauses, unsatisfiable when it empties a clause,
\* and when it stalls satisfiable if every variable was assigned, undetermined
\* otherwise; a /\ ~a is unsatisfiable.
C5_VerdictFollowsPropagation ==
    (called = "determinism" /\ config.type \in {<<>>, TypeCnf} /\ IsClauseForm(config.formula))
        => /\ result.determinismResult = ExpectedVerdict(ClausesOf(config.formula))
           /\ (config.formula = <<"a", AND, NOT, "a">>
                 => result.determinismResult = "unsatisfiable")

\* the classifier has answered unsatisfiable for a /\ ~a
C5_Witness ==
    /\ called = "determinism"
    /\ config.type = TypeCnf
    /\ config.formula = <<"a", AND, NOT, "a">>
    /\ result.determinismResult = "unsatisfiable"
    /\ PropagationOutcome(ClausesOf(config.formula)) = "contradiction"

\* C6: on every clause-form input the General variant, and DeterminismChecker
\* called with a type other than 'cnf', return the determinismResult of the
\* CNF classification, also when propagation produces an empty clause.
C6_GeneralAgreesWithCNF ==
    (/\ IsClauseForm(config.formula)
     /\ \/ called = "generalDeterminism"
        \/ (called = "determinism" /\ config.type = TypeGeneral))
        => result.determinismResult = checkCNFDeterminism(config.formula).determinismResult

-----------------------------------------------------------------------------
(* Pure-atom simplification: the state machine *)

\* the formula (a \/ b) /\ (a \/ c), as a user types it
PureAtomExamples ==
    {<<"(", "a", OR, "b", ")", AND, "(", "a", OR, "c", ")">>}

InitPureAtom ==
    /\ \E f \in RenderedFormulas \cup PureAtomExamples : config = Config(f, <<>>, <<>>, <<>>, <<>>)
    /\ called = "none"
    /\ result = NoResult
    /\ nextVar = 0

PureAtomCalculate ==
    /\ called = "none"
    /\ called' = "pureAtom"
    /\ result' = PureAtomSimplifier_calculate(config)
    /\ UNCHANGED <<config, nextVar>>

NextPureAtom == PureAtomCalculate

SpecPureAtom == InitPureAtom /\ [][NextPureAtom]_vars

\* C4: the simplified formula of a well-formed input holds no pure atom: the
\* polarity analysis applied to the output classifies none of its variables
\* as pure.
C4_NoPureAtomInOutput ==
    (called = "pureAtom" /\ ~Threw(Parse(config.formula)))
        => LET output == Parse(result.simplifiedFormula) IN
           /\ ~Threw(output)
           /\ findPureAtoms(collectVariablePolarities(output.node)) = <<>>

-----------------------------------------------------------------------------
(* Polarity: the state machine *)

InitPolarity ==
    /\ \E f \in {toText(t) : t \in TreesUpTo(Leaves, BinaryOps, 3)},
          p \in PositionStrings :
           config = Config(f, p, <<>>, <<>>, <<>>)
    /\ called = "none"
    /\ result = NoResult
    /\ nextVar = 0

PolarityCalculate ==
    /\ called = "none"
    /\ called' = "polarity"
    /\ result' = PolarityCalculator_calculate(config)
    /\ UNCHANGED <<config, nextVar>>

NextPolarity == PolarityCalculate

SpecPolarity == InitPolarity /\ [][NextPolarity]_vars

\* the sign flips on the way to a valid position: one for entering the left
\* child of an implication, one for entering the operand of a negation
RECURSIVE SignFlips(_, _)
SignFlips(tree, parts) ==
    IF parts = <<>> THEN 0
    ELSE IF tree.type = "unary" THEN 1 + SignFlips(tree.operand, Tail(parts))
    ELSE IF Head(parts) = <<"1">>
    THEN (IF tree.operator = IMPLIES THEN 1 ELSE 0) + SignFlips(tree.left, Tail(parts))
    ELSE SignFlips(tree.right, Tail(parts))

FlipsTo(tree, position) ==
    IF position = <<>> THEN 0 ELSE SignFlips(tree, Split(position, "."))

\* C9: for a well-formed formula and a position valid for it, calculate
\* returns a result, never an error, whose polarity is positive when the
\* number of sign flips on the path is even and negative when it is odd.
C9_DefinitePolarity ==
    (/\ called = "polarity"
     /\ ~Threw(Parse(config.formula))
     /\ ValidPosition(Parse(config.formula).node, config.position))
        => /\ ~Threw(result)
           /\ result.polarity =
                  IF FlipsTo(Parse(config.formula).node, config.position) % 2 = 0
                  THEN "positive" ELSE "negative"

-----------------------------------------------------------------------------
(* Interpretation testing: the state machine *)

MaxFormulaNodes == 3      \* interpreted formulas: up to this many nodes
MaxStatementNodes == 3    \* statements: logical part up to this many nodes

InterpretationStrings ==
    {<<"I", g>> \o n \o <<"a">> : g \in {MODELS, NOTMODELS}, n \in {<<>>, <<NOT>>}}
        \cup {<<"I", MODELS>>}

StatementStrings ==
    {<<"I", g>> \o toText(t) :
        g \in {MODELS, NOTMODELS},
        t \in TreesUpTo({Var("A"), Var("b")}, BinaryOps, MaxStatementNodes)}
        \cup {<<"A">>}

InitInterpretation ==
    /\ \E f \in {toText(t) : t \in TreesUpTo({Var("a"), Var("b")}, BinaryOps,
                                            MaxFormulaNodes)},
          i \in InterpretationStrings,
          st \in StatementStrings :
           config = Config(f, <<>>, i, st, <<>>)
    /\ called = "none"
    /\ result = NoResult
    /\ nextVar = 0

InterpretationCalculate ==
    /\ called = "none"
    /\ called' = "interpretation"
    /\ result' = InterpretationTester_calculate(config)
    /\ UNCHANGED <<config, nextVar>>

NextInterpretation == InterpretationCalculate

SpecInterpretation == InitInterpretation /\ [][NextInterpretation]_vars

\* the statement's sign and the composite it is judged on: the logical part
\* with A replaced by the simplified formula, the assignment applied,
\* simplified
StatementIsPositive(cfg) == SelectSeq(cfg.statement, LAMBDA ch : ch # " ")[2] = MODELS

CompositeOf(cfg) ==
    LET assignment == parseInterpretation(cfg.interpretation)
        simplified == simplifyFormula(substituteVariables(Parse(cfg.formula).node,
                                                          assignment))
        stripped == SelectSeq(cfg.statement, LAMBDA ch : ch # " ")
    IN compositeOf(SubSeq(stripped, 3, Len(stripped)), simplified, assignment).node

\* C10: isValid follows the statement's sign on the simplified composite: for
\* a statement "I models ..." it is true iff the composite is the constant
\* top, for "I does not model ..." it is true iff the composite is the
\* constant bottom.
C10_VerdictFollowsSign ==
    (called = "interpretation" /\ ~Threw(result))
        => result.isValid =
               IF StatementIsPositive(config) THEN IsConst(CompositeOf(config), TOP)
               ELSE IsConst(CompositeOf(config), BOT)

-----------------------------------------------------------------------------
(* Every calculate entry point on arbitrary strings: the state machine *)

MaxCalcLen == 3     \* strings given to every entry point: up to this length

CalculatorAlphabet == {"a", NOT, AND, OR, "(", ")", "1"}
CalculatorStrings == StringsUpTo(CalculatorAlphabet, MaxCalcLen)

InitCalculators ==
    /\ \E f \in CalculatorStrings :
           config = Config(f, <<>>, <<"I", MODELS, "a">>, <<"I", MODELS, "A">>, <<>>)
    /\ called = "none"
    /\ result = NoResult
    /\ nextVar = 0

TruthTableCalculate ==
    /\ called = "none"
    /\ called' = "truthTable"
    /\ result' = TruthTableGenerator_calculate(config)
    /\ UNCHANGED <<config, nextVar>>

SatisfiabilityCalculate ==
    /\ called = "none"
    /\ called' = "satisfiability"
    /\ result' = SatisfiabilityChecker_calculate(config)
    /\ UNCHANGED <<config, nextVar>>

NextCalculators ==
    \/ TruthTableCalculate
    \/ SatisfiabilityCalculate
    \/ SubformulaCalculate
    \/ UnitPropagationCalculate
    \/ DeterminismCalculate
    \/ GeneralDeterminismCalculate
    \/ PureAtomCalculate
    \/ PolarityCalculate
    \/ TseytinCalculate
    \/ InterpretationCalculate

SpecCalculators == InitCalculators /\ [][NextCalculators]_vars

\* C2: no calculate entry point returns a result record for a syntactically
\* malformed formula (invalid character, missing closing parenthesis,
\* unexpected token, unexpected end of input): each of them throws.
C2_MalformedFormulaThrows ==
    (called # "none" /\ Threw(Parse(config.formula))) => Threw(result)

-----------------------------------------------------------------------------
(* The interpretation tester's substitution and simplifier: the state      *)
(* machine.  The step is the part of InterpretationTester.calculate that   *)
(* parses the interpretation and the formula, substitutes and simplifies.  *)

MaxSimplifyNodes == 5     \* simplified formulas: every AST up to this many nodes

\* I models / does not model a literal of a (in the formulas) or c (in none)
SimplifierInterpretations ==
    {<<"I", g>> \o n \o <<v>> :
        g \in {MODELS, NOTMODELS}, n \in {<<>>, <<NOT>>}, v \in {"a", "c"}}

InterpretationTester_simplify(cfg) ==
    LET assignment == parseInterpretation(cfg.interpretation) IN
    IF Threw(assignment) THEN assignment
    ELSE LET parsedFormula == Parse(cfg.formula) IN
         IF Threw(parsedFormula) THEN parsedFormula
         ELSE LET substitutedFormula ==
                      substituteVariables(parsedFormula.node, assignment)
              IN [threw |-> FALSE,
                  substitutedFormula |-> substitutedFormula,
                  simplifiedFormula |-> simplifyFormula(substitutedFormula)]

InitSimplifier ==
    /\ \E f \in {toText(t) : t \in TreesUpTo(Leaves, BinaryOps, MaxSimplifyNodes)},
          i \in SimplifierInterpretations :
           config = Config(f, <<>>, i, <<>>, <<>>)
    /\ called = "none"
    /\ result = NoResult
    /\ nextVar = 0

SimplifyCalculate ==
    /\ called = "none"
    /\ called' = "simplify"
    /\ result' = InterpretationTester_simplify(config)
    /\ UNCHANGED <<config, nextVar>>

NextSimplifier == SimplifyCalculate

SpecSimplifier == InitSimplifier /\ [][NextSimplifier]_vars

\* the truth value of a formula under a total assignment of its variables
RECURSIVE TruthValue(_, _)
TruthValue(node, total) ==
    IF node.type = "variable" THEN total[node.value]
    ELSE IF node.type = "constant" THEN node.value = TOP
    ELSE IF node.type = "unary" THEN ~TruthValue(node.operand, total)
    ELSE IF node.operator = AND
         THEN TruthValue(node.left, total) /\ TruthValue(node.right, total)
    ELSE IF node.operator = OR
         THEN TruthValue(node.left, total) \/ TruthValue(node.right, total)
    ELSE IF node.operator = IMPLIES
         THEN TruthValue(node.left, total) => TruthValue(node.right, total)
    ELSE TruthValue(node.left, total) <=> TruthValue(node.right, total)

\* substituted is original with the occurrences of the assigned variable, and
\* nothing else, replaced by the constant of its value
RECURSIVE OnlyAssignedReplaced(_, _, _)
OnlyAssignedReplaced(original, substituted, assignment) ==
    IF original.type = "variable"
    THEN IF <<original.value>> = assignment.variable
         THEN substituted = Const(IF assignment.value THEN TOP ELSE BOT)
         ELSE substituted = original
    ELSE IF original.type = "constant" THEN substituted = original
    ELSE IF original.type = "unary"
    THEN /\ substituted.type = "unary"
         /\ OnlyAssignedReplaced(original.operand, substituted.operand, assignment)
    ELSE /\ substituted.type = "binary"
         /\ substituted.operator = original.operator
         /\ OnlyAssignedReplaced(original.left, substituted.left, assignment)
         /\ OnlyAssignedReplaced(original.right, substituted.right, assignment)

\* the total assignments of the formula's variables that extend the partial one
Extensions(node, assignment) ==
    {total \in [variablesOf(node) -> BOOLEAN] :
        \A v \in variablesOf(node) :
            <<v>> = assignment.variable => total[v] = assignment.value}

\* C11: the simplified substituted formula has, under every total assignment
\* that extends the partial one, the truth value of the original formula, and
\* substitution replaces the assigned variable only.
C11_SimplifierPreservesValue ==
    (called = "simplify" /\ ~Threw(result))
        => LET original == Parse(config.formula).node
               assignment == parseInterpretation(config.interpretation)
           IN /\ OnlyAssignedReplaced(original, result.substitutedFormula, assignment)
              /\ variablesOf(result.simplifiedFormula) \subseteq variablesOf(original)
              /\ \A total \in Extensions(original, assignment) :
                     TruthValue(result.simplifiedFormula, total)
                         = TruthValue(original, total)

\* a was replaced, the simplifier folded the constant away, b is still there
C11_Witness ==
    /\ called = "simplify" /\ ~Threw(result)
    /\ result.substitutedFormula # Parse(config.formula).node
    /\ result.simplifiedFormula # result.substitutedFormula
    /\ "b" \in variablesOf(result.simplifiedFormula)
    /\ \A total \in Extensions(Parse(config.formula).node,
                               parseInterpretation(config.interpretation)) :
           TruthValue(result.simplifiedFormula, total)
               = TruthValue(Parse(config.formula).node, total)

-----------------------------------------------------------------------------
(* Claims about the standalone unit propagation *)

\* the clause list behind the finalClauses strings of a result
RemainingClauses(res) ==
    [i \in 1..Len(res.finalClauses) |-> Split(res.finalClauses[i], ",")]

NoContradictionArises(formula) ==
    IsClauseForm(formula) /\ PropagationOutcome(ClausesOf(formula)) # "contradiction"

\* C12: on a clause-form input without contradiction, the clauses left when
\* the loop stops hold no clause of size 1; the loop run on them again takes
\* no step and returns them unchanged, and so does calculate on the formula
\* they spell.
C12_PropagationIdempotent ==
    (called = "unitPropagation" /\ NoContradictionArises(config.formula))
        => LET remaining == RemainingClauses(result)
               again == unitPropagationLoop(remaining, <<>>, <<>>)
           IN /\ \A i \in 1..Len(remaining) : Len(remaining[i]) # 1
              /\ again.steps = <<>>
              /\ again.literals = <<>>
              /\ again.clauses = remaining
              /\ remaining # <<>> =>
                     LET second == UnitPropagation_calculate(
                                       [config EXCEPT !.formula = RenderCnf(remaining, TRUE)])
                     IN second.steps = <<>> /\ second.finalClauses = result.finalClauses

\* a literal was propagated and clauses are left over
C12_Witness ==
    /\ called = "unitPropagation"
    /\ NoContradictionArises(config.formula)
    /\ result.steps # <<>>
    /\ result.finalClauses # <<>>
    /\ unitPropagationLoop(RemainingClauses(result), <<>>, <<>>).steps = <<>>

\* the input (a \/ b) /\ (~a)
ScenarioC13 == <<"(", "a", OR, "b", ")", AND, "(", NOT, "a", ")">>

\* C13: for (a \/ b) /\ (~a) the analysis propagates ~a and then the unit b it
\* leaves, ends with no clause left, reports the literals [~a, b] and the
\* formatted result (-a);(b).
C13_ScenarioPropagatesBoth ==
    (called = "unitPropagation" /\ config.formula = ScenarioC13)
        => /\ Len(result.steps) = 2
           /\ result.steps[1].literal = <<NOT, "a">>
           /\ result.steps[2].literal = <<"b">>
           /\ result.finalClauses = <<>>
           /\ result.literals = <<<<NOT, "a">>, <<"b">>>>
           /\ result.formattedResult = <<"(", "-", "a", ")", ";", "(", "b", ")">>

\* C13 as stated: the propagated literals are exactly [~a]
C13_ScenarioLiteralsOnlyNotA ==
    (called = "unitPropagation" /\ config.formula = ScenarioC13)
        => /\ result.steps[1].literal = <<NOT, "a">>
           /\ result.finalClauses = <<>>
           /\ result.literals = <<<<NOT, "a">>>>
           /\ result.formattedResult = <<"(", "-", "a", ")", ";", "(", "b", ")">>

\* the analysis has answered for (a \/ b) /\ (~a)
C13_Witness ==
    /\ called = "unitPropagation"
    /\ config.formula = ScenarioC13
    /\ result.formattedResult = <<"(", "-", "a", ")", ";", "(", "b", ")">>
    /\ result.finalClauses = <<>>

-----------------------------------------------------------------------------
(* Further claims about the Tseytin transformation *)

\* the input (a /\ b)
ScenarioC14 == <<"(", "a", AND, "b", ")">>

\* C14: the transformation of (a /\ b) introduces no auxiliary name and yields
\* the clause list (a);(b).
C14_ConjunctionNeedsNoName ==
    (called = "tseytin" /\ config.formula = ScenarioC14)
        => /\ ~Threw(result)
           /\ result.auxVariables = <<>>
           /\ result.formattedResult = <<"(", "a", ")", ";", "(", "b", ")">>

-----------------------------------------------------------------------------
(* Truth tables and satisfiability: the state machine *)

MaxEvalNodes == 5     \* evaluated formulas: every AST up to this many nodes

EvaluatorLeaves == {Var("a"), Var("b"), Var("c"), Const(TOP), Const(BOT)}
EvaluatorFormulas ==
    {toText(t) : t \in TreesUpTo(EvaluatorLeaves, BinaryOps, MaxEvalNodes)}

InitEvaluator ==
    /\ \E f \in EvaluatorFormulas : config = Config(f, <<>>, <<>>, <<>>, <<>>)
    /\ called = "none"
    /\ result = NoResult
    /\ nextVar = 0

NextEvaluator ==
    \/ TruthTableCalculate
    \/ SatisfiabilityCalculate

SpecEvaluator == InitEvaluator /\ [][NextEvaluator]_vars

-----------------------------------------------------------------------------
(* Claims about truth tables and satisfiability *)

\* the place of a variable among the formula's variables in sorted order,
\* counted from 0, and the counter whose bits spell a total assignment
SortedPlace(v, variables) ==
    Cardinality({w \in variables : LetterIndex(w) < LetterIndex(v)})

RECURSIVE CounterOfOver(_, _, _)
CounterOfOver(total, rest, variables) ==
    IF rest = {} THEN 0
    ELSE LET v == CHOOSE w \in rest : TRUE IN
         (IF total[v] THEN Pow2(SortedPlace(v, variables)) ELSE 0)
             + CounterOfOver(total, rest \ {v}, variables)

CounterOf(total) == CounterOfOver(total, DOMAIN total, DOMAIN total)

TrueRows(tree) == {total \in [variablesOf(tree) -> BOOLEAN] : TruthValue(tree, total)}

\* C15: the status is unsatisfiable iff no assignment makes the formula true,
\* valid iff all do, satisfiable otherwise; the model is the satisfying
\* assignment with the least counter, and null iff the status is
\* unsatisfiable; a -> a is valid.
C15_StatusFromTrueRows ==
    (called = "satisfiability" /\ ~Threw(result))
        => LET tree == Parse(config.formula).node
               all == [variablesOf(tree) -> BOOLEAN]
               true == TrueRows(tree)
           IN /\ result.status \in {"unsatisfiable", "valid", "satisfiable"}
              /\ result.status = "unsatisfiable" <=> true = {}
              /\ result.status = "valid" <=> true = all
              /\ result.status = "satisfiable" <=> (true # {} /\ true # all)
              /\ result.status = "unsatisfiable" <=> result.model = NULL
              /\ true # {} =>
                     /\ result.model \in true
                     /\ \A other \in true : CounterOf(result.model) <= CounterOf(other)
              /\ config.formula = <<"(", "a", IMPLIES, "a", ")">> => result.status = "valid"

\* a satisfiable, not valid formula whose first model is not the all-false row
C15_Witness ==
    /\ called = "satisfiability" /\ ~Threw(result)
    /\ result.status = "satisfiable"
    /\ Cardinality(TrueRows(Parse(config.formula).node)) >= 2
    /\ result.model \in TrueRows(Parse(config.formula).node)
    /\ CounterOf(result.model) > 0

\* C16: the table has 2^n rows for the n variables of the formula; row i,
\* counted from 0, gives the j-th variable in sorted order bit j of i, so the
\* rows are pairwise distinct, and each row carries the formula's truth value
\* under its assignment.
C16_RowsAreCounterBits ==
    (called = "truthTable" /\ ~Threw(result))
        => LET tree == Parse(config.formula).node
               variables == variablesOf(tree)
               rows == result.rows
           IN /\ Len(rows) = 2 ^ Cardinality(variables)
              /\ Len(result.variables) = Cardinality(variables)
              /\ \A v \in variables : result.variables[SortedPlace(v, variables) + 1] = v
              /\ \A i \in 1..Len(rows) :
                     /\ DOMAIN rows[i].assignment = variables
                     /\ \A v \in variables :
                            rows[i].assignment[v]
                                = (((i - 1) \div (2 ^ SortedPlace(v, variables))) % 2 = 1)
                     /\ rows[i].result = TruthValue(tree, rows[i].assignment)
              /\ \A i, k \in 1..Len(rows) :
                     i # k => rows[i].assignment # rows[k].assignment

\* a table of eight rows over a, b and c with both truth values in it
C16_Witness ==
    /\ called = "truthTable" /\ ~Threw(result)
    /\ result.variables = <<"a", "b", "c">>
    /\ Len(result.rows) = 8
    /\ result.rows[2].assignment = [v \in {"a", "b", "c"} |-> v = "a"]
    /\ \E i, k \in 1..8 : result.rows[i].result /\ ~result.rows[k].result

-----------------------------------------------------------------------------
(* Claims about operator precedence *)

\* how tightly an operator binds
Binding(op) ==
    IF op = EQUIV THEN 1 ELSE IF op = IMPLIES THEN 2 ELSE IF op = OR THEN 3 ELSE 4

\* x op1 y op2 z groups to the right only when op2 binds tighter than op1
ChainReading(f) ==
    IF Binding(f[4]) > Binding(f[2])
    THEN Binary(f[2], Var(f[1]), Binary(f[4], Var(f[3]), Var(f[5])))
    ELSE Binary(f[4], Binary(f[2], Var(f[1]), Var(f[3])), Var(f[5]))

\* x op1 ( y op2 z ) groups as parenthesized
GroupReading(f) == Binary(f[2], Var(f[1]), Binary(f[5], Var(f[4]), Var(f[6])))

IsNegatedOperand(f) ==
    /\ Len(f) = 4 /\ f[1] = NOT
    /\ f[2] \in {"a", "b"} /\ f[3] \in BinaryOps /\ f[4] \in {"a", "b"}

IsNegatedTwice(f) == Len(f) = 3 /\ f[1] = NOT /\ f[2] = NOT /\ f[3] \in {"a", "b"}

\* C17: the parser binds <-> loosest, then ->, \/, /\, and ~ tightest; binary
\* operators of one level chain to the left, ~ is a nested prefix, and
\* parentheses override: a \/ b /\ c is a \/ (b /\ c), ~a /\ b is (~a) /\ b,
\* a -> b -> c is (a -> b) -> c, a <-> b -> c is a <-> (b -> c).
C17_PrecedenceAndAssociation ==
    (called = "subformula" /\ config.position = <<>>)
        => LET f == config.formula IN
           /\ f \in ChainedFormulas => (~Threw(result) /\ result.tree = ChainReading(f))
           /\ f \in GroupedFormulas => (~Threw(result) /\ result.tree = GroupReading(f))
           /\ IsNegatedOperand(f)
                  => (~Threw(result)
                      /\ result.tree = Binary(f[3], Unary(Var(f[2])), Var(f[4])))
           /\ IsNegatedTwice(f)
                  => (~Threw(result) /\ result.tree = Unary(Unary(Var(f[3]))))
           /\ f = <<"a", OR, "b", AND, "a">>
                  => result.tree = Binary(OR, Var("a"), Binary(AND, Var("b"), Var("a")))
           /\ f = <<NOT, "a", AND, "b">>
                  => result.tree = Binary(AND, Unary(Var("a")), Var("b"))
           /\ f = <<"a", IMPLIES, "b", IMPLIES, "a">>
                  => result.tree = Binary(IMPLIES, Binary(IMPLIES, Var("a"), Var("b")),
                                          Var("a"))
           /\ f = <<"a", EQUIV, "b", IMPLIES, "a">>
                  => result.tree = Binary(EQUIV, Var("a"),
                                          Binary(IMPLIES, Var("b"), Var("a")))

\* a <-> b -> a was parsed with the implication below the equivalence
C17_Witness ==
    /\ called = "subformula" /\ ~Threw(result)
    /\ config.formula = <<"a", EQUIV, "b", IMPLIES, "a">>
    /\ result.tree.operator = EQUIV
    /\ result.tree.right.type = "binary"
    /\ result.tree.right.operator = IMPLIES

-----------------------------------------------------------------------------
(* Listing the positions: the state machine *)

MaxPositionNodes == 6     \* listed formulas: every AST up to this many nodes

PositionFormulas ==
    {toText(t) : t \in TreesUpTo({Var("a")}, BinaryOps, MaxPositionNodes)}
        \cup {<<>>, <<" ">>, <<"(">>, <<" ", "a", " ">>}

InitPositions ==
    /\ \E f \in PositionFormulas : config = Config(f, <<>>, <<>>, <<>>, <<>>)
    /\ called = "none"
    /\ result = NoResult
    /\ nextVar = 0

GeneratePositions ==
    /\ called = "none"
    /\ called' = "positions"
    /\ result' = generatePositions(config)
    /\ UNCHANGED <<config, nextVar>>

NextPositions == GeneratePositions

SpecPositions == InitPositions /\ [][NextPositions]_vars

\* the valid positions of a tree, as paths: sequences of steps 1 and 2
RECURSIVE ValidPaths(_)
ValidPaths(node) ==
    IF node.type = "unary" THEN {<<>>} \cup {<<1>> \o p : p \in ValidPaths(node.operand)}
    ELSE IF node.type = "binary"
    THEN {<<>>} \cup {<<1>> \o p : p \in ValidPaths(node.left)}
                \cup {<<2>> \o p : p \in ValidPaths(node.right)}
    ELSE {<<>>}

\* the path a position string spells
PathOf(position) ==
    IF position = <<>> THEN <<>>
    ELSE LET parts == Split(position, ".") IN
         [i \in 1..Len(parts) |-> IF parts[i] = <<"1">> THEN 1
                                  ELSE IF parts[i] = <<"2">> THEN 2 ELSE 0]

\* p comes before q lexicographically
RECURSIVE LexBefore(_, _)
LexBefore(p, q) ==
    IF q = <<>> THEN FALSE
    ELSE IF p = <<>> THEN TRUE
    ELSE IF Head(p) # Head(q) THEN Head(p) < Head(q)
    ELSE LexBefore(Tail(p), Tail(q))

\* C18: getAllPositions lists exactly the valid positions of the tree, the
\* root's empty string included, each once and each resolved by
\* getSubformulaAtPosition, ordered by path length and, among paths of one
\* length, lexicographically.
C18_AllPositionsSorted ==
    (called = "positions" /\ result.shown)
        => LET tree == Parse(Trim(config.formula)).node
               ps == result.positions
           IN /\ {PathOf(ps[i]) : i \in 1..Len(ps)} = ValidPaths(tree)
              /\ Len(ps) = Cardinality(ValidPaths(tree))
              /\ \E i \in 1..Len(ps) : ps[i] = <<>>
              /\ \A i \in 1..Len(ps) :
                     /\ ValidPosition(tree, ps[i])
                     /\ getSubformulaAtPosition(tree, ps[i]) = NodeAt(tree, ps[i])
              /\ \A p \in PositionStrings :
                     ValidPosition(tree, p) => \E i \in 1..Len(ps) : ps[i] = p
              /\ \A i, k \in 1..Len(ps) :
                     i < k => \/ Len(PathOf(ps[i])) < Len(PathOf(ps[k]))
                              \/ /\ Len(PathOf(ps[i])) = Len(PathOf(ps[k]))
                                 /\ LexBefore(PathOf(ps[i]), PathOf(ps[k]))

\* a tree whose positions are not pushed in sorted order: 1.1.1 is pushed
\* before 2.1 and listed after it
C18_Witness ==
    /\ called = "positions" /\ result.shown
    /\ \E i, k \in 1..Len(result.positions) :
           /\ i < k
           /\ result.positions[i] = <<"2", ".", "1">>
           /\ result.positions[k] = <<"1", ".", "1", ".", "1">>

\* x may stand before y in a clause: plain variables alphabetically, then the
\* auxiliary names by number; of one variable the positive literal first
CanonicalOrder(x, y) ==
    LET vx == BaseVariable(x)
        vy == BaseVariable(y)
    IN IF vx = vy THEN ~(StartsWith(x, "-") /\ ~StartsWith(y, "-"))
       ELSE IF IsAuxName(vx) /\ IsAuxName(vy)
       THEN DecimalValue(Tail(vx), 0) < DecimalValue(Tail(vy), 0)
       ELSE IF IsAuxName(vx) THEN FALSE
       ELSE IF IsAuxName(vy) THEN TRUE
       ELSE LetterIndex(vx[1]) < LetterIndex(vy[1])

\* C19: in every output of the transformation no two clauses have the same
\* sorted-literal string, and every clause has its literals in canonical
\* order.
C19_ClausesUniqueAndSorted ==
    (called = "tseytin" /\ ~Threw(result))
        => /\ \A i, k \in 1..Len(result.clauses) :
                  i # k => result.clauses[i] # result.clauses[k]
           /\ \A i \in 1..Len(result.clauses) :
                  LET c == ClauseLiterals(result.clauses[i]) IN
                  \A j \in 1..(Len(c) - 1) : CanonicalOrder(c[j], c[j + 1])

\* a <-> a: two of the four defining clauses sort to (a,-a,-n0) and one is kept
C19_Witness ==
    /\ called = "tseytin" /\ ~Threw(result)
    /\ config.formula = <<"(", "a", EQUIV, "a", ")">>
    /\ Len(result.clauses) = 4
    /\ result.clauses[1] = <<"(", "a", ",", "-", "a", ",", "-", "n", "0", ")">>

\* the paths of the nodes that need a name
NamedPaths(tree) == {p \in PathsOf(tree) : needsName(NodeAtPath(tree, p))}

\* q lies strictly below p
IsBelow(q, p) == Len(q) > Len(p) /\ SubSeq(q, 1, Len(p)) = p

\* the index of the auxiliary variable that represents the node at path p
NameIndex(res, tree, p) ==
    CHOOSE i \in 1..Len(res.auxVariables) :
        res.auxVariables[i].represents = toText(NodeAtPath(tree, p))

\* C20: the counter ends at the number of distinct subformulas that need a
\* name, each named once at its first visit, below-before-above and
\* right-before-left; in an output a node has a name iff it is binary or a negation of a
\* non-literal, the names are n0..n(k-1) in order, a named node's index is
\* greater than those of the named nodes below it, and the named nodes of a
\* binary node's right subtree have smaller indices than those of its left
\* subtree.
C20_NamesInRightToLeftPostOrder ==
    (called = "tseytin" /\ ~Threw(Parse(config.formula)))
        => LET tree == Parse(config.formula).node IN
           /\ nextVar = Cardinality(DistinctNamedSubformulas(tree))
           /\ LET order == traverseTreeInSpecifiedOrder(tree) IN
              /\ Len(order) = Cardinality(DistinctNamedSubformulas(tree))
              /\ {NodeAtPath(tree, order[i]) : i \in 1..Len(order)}
                   = DistinctNamedSubformulas(tree)
              /\ \A i, k \in 1..Len(order) :
                     IsBelow(order[i], order[k]) => i < k
              /\ \A p \in PathsOf(tree), i, k \in 1..Len(order) :
                     (/\ NodeAtPath(tree, p).type = "binary"
                      /\ (order[i] = Append(p, 1) \/ IsBelow(order[i], Append(p, 1)))
                      /\ (order[k] = Append(p, 2) \/ IsBelow(order[k], Append(p, 2))))
                         => k < i
           /\ ~Threw(result) =>
                  /\ Len(result.auxVariables) = Cardinality(NamedPaths(tree))
                  /\ {result.auxVariables[i].represents :
                         i \in 1..Len(result.auxVariables)}
                       = {toText(NodeAtPath(tree, p)) : p \in NamedPaths(tree)}
                  /\ \A i \in 1..Len(result.auxVariables) :
                         result.auxVariables[i].variable = <<"n">> \o Decimal(i - 1)
                  /\ \A p, q \in NamedPaths(tree) :
                         IsBelow(q, p)
                             => NameIndex(result, tree, q) < NameIndex(result, tree, p)
                  /\ \A p \in PathsOf(tree), l, r \in NamedPaths(tree) :
                         (/\ NodeAtPath(tree, p).type = "binary"
                          /\ (l = Append(p, 1) \/ IsBelow(l, Append(p, 1)))
                          /\ (r = Append(p, 2) \/ IsBelow(r, Append(p, 2))))
                             => NameIndex(result, tree, r) < NameIndex(result, tree, l)

\* an output with named nodes on both sides of the root: the right operand is
\* n0, the left operand n1, the root n2
C20_Witness ==
    /\ called = "tseytin" /\ ~Threw(result)
    /\ Len(result.auxVariables) = 3
    /\ Parse(config.formula).node.type = "binary"
    /\ result.auxVariables[1].represents = toText(Parse(config.formula).node.right)
    /\ result.auxVariables[2].represents = toText(Parse(config.formula).node.left)
    /\ result.auxVariables[3].represents = toText(Parse(config.formula).node)
    /\ nextVar = 3

-----------------------------------------------------------------------------
(* One transformer instance called again and again: the state machine *)

MaxInstanceNodes == 4     \* formulas given to the instance: up to this many nodes
MaxNextVar == 8           \* calls are made while the counter is at most this

InstanceFormulas ==
    {toText(t) : t \in TreesUpTo({Var("a")}, BinaryOps, MaxInstanceNodes)}
        \cup {<<"(">>, <<")">>, <<"a", AND>>, <<AND>>, <<"a", "a">>, <<NOT>>}

InitTseytinInstance ==
    /\ \E f \in InstanceFormulas : config = Config(f, <<>>, <<>>, <<>>, <<>>)
    /\ called = "none"
    /\ result = NoResult
    /\ nextVar = 0

\* a further call on the instance; `called` records whether the call before
\* it threw
TseytinCalculateAgain ==
    /\ called # "none"
    /\ nextVar <= MaxNextVar
    /\ \E f \in InstanceFormulas :
           /\ config' = [config EXCEPT !.formula = f]
           /\ result' = TseytinTransformer_calculateOn([config EXCEPT !.formula = f], nextVar)
           /\ nextVar' = TseytinTransformer_nextVarOn([config EXCEPT !.formula = f], nextVar)
    /\ called' = IF Threw(result) THEN "tseytinAfterThrow" ELSE "tseytinAgain"

NextTseytinInstance ==
    \/ TseytinCalculate
    \/ TseytinCalculateAgain

SpecTseytinInstance == InitTseytinInstance /\ [][NextTseytinInstance]_vars

\* C21: whatever calls came before on the instance, threw or not, a call
\* returns what a fresh instance returns for the formula, its names start at
\* n0, and the counter ends where a fresh instance's does.
C21_CounterResetEachCall ==
    (called \in {"tseytinAgain", "tseytinAfterThrow"})
        => /\ result = TseytinTransformer_calculate(config)
           /\ nextVar = TseytinTransformer_nextVarAfter(config)
           /\ (~Threw(result) /\ Len(result.auxVariables) > 0)
                  => result.auxVariables[1].variable = <<"n", "0">>

\* a call that named two subformulas, made after a call that threw
C21_Witness ==
    /\ called = "tseytinAfterThrow"
    /\ ~Threw(result)
    /\ Len(result.auxVariables) = 2
    /\ result.auxVariables[1].variable = <<"n", "0">>
    /\ nextVar = 2

-----------------------------------------------------------------------------
(* Pure-atom simplification: the shape of the simplified formula *)

RECURSIVE HasDoubleNegation(_)
HasDoubleNegation(node) ==
    IF node.type \in {"variable", "constant"} THEN FALSE
    ELSE IF node.type = "unary"
    THEN node.operand.type = "unary" \/ HasDoubleNegation(node.operand)
    ELSE HasDoubleNegation(node.left) \/ HasDoubleNegation(node.right)

\* C22: for a well-formed input the simplified formula is a single constant
\* or holds no constant at all, and in it no negation is the operand of a
\* negation.
C22_NoConstantNoDoubleNegation ==
    (called = "pureAtom" /\ ~Threw(Parse(config.formula)))
        => LET output == Parse(result.simplifiedFormula) IN
           /\ ~Threw(output)
           /\ output.node.type = "constant" \/ ~HasConstant(output.node)
           /\ ~HasDoubleNegation(output.node)

\* a double negation over a variable that is not pure: the second pass
\* removes it
C22_Witness ==
    /\ called = "pureAtom"
    /\ config.formula = <<"(", "a", EQUIV, NOT, NOT, "a", ")">>
    /\ result.pureAtoms = <<>>
    /\ result.simplifiedFormula = <<"(", "a", EQUIV, "a", ")">>

\* the (variable, sign) pairs of the occurrences of variables in a formula:
\* the sign flips under a negation and on the left of an implication, and an
\* occurrence under an equivalence counts with both signs
RECURSIVE Occurrences(_, _)
Occurrences(node, sign) ==
    IF node.type = "variable" THEN {<<node.value, sign>>}
    ELSE IF node.type = "constant" THEN {}
    ELSE IF node.type = "unary" THEN Occurrences(node.operand, ~sign)
    ELSE IF node.operator = IMPLIES
    THEN Occurrences(node.left, ~sign) \cup Occurrences(node.right, sign)
    ELSE IF node.operator = EQUIV
    THEN Occurrences(node.left, sign) \cup Occurrences(node.left, ~sign)
         \cup Occurrences(node.right, sign) \cup Occurrences(node.right, ~sign)
    ELSE Occurrences(node.left, sign) \cup Occurrences(node.right, sign)

EveryVariablePure(node) ==
    \A o \in Occurrences(node, TRUE) : <<o[1], ~o[2]>> \notin Occurrences(node, TRUE)

\* C23: a constant-free formula all of whose variables are pure atoms
\* simplifies to top, and pureAtoms lists exactly its variables.
C23_AllPureGivesTop ==
    (/\ called = "pureAtom"
     /\ ~Threw(Parse(config.formula))
     /\ ~HasConstant(Parse(config.formula).node)
     /\ EveryVariablePure(Parse(config.formula).node))
        => /\ result.simplifiedFormula = <<TOP>>
           /\ {result.pureAtoms[i] : i \in 1..Len(result.pureAtoms)}
                  = variablesOf(Parse(config.formula).node)

\* the formula (a \/ b) /\ (a \/ c): a, b and c are pure and the result is top
C23_Witness ==
    /\ called = "pureAtom"
    /\ config.formula \in PureAtomExamples
    /\ EveryVariablePure(Parse(config.formula).node)
    /\ result.pureAtoms = <<"a", "b", "c">>
    /\ result.simplifiedFormula = <<TOP>>

-----------------------------------------------------------------------------
(* InterpretationTester.simplifyFormula: where the loop stops *)

\* C24: the loop of simplifyFormula exits after fewer than 20 iterations, on
\* a tree that a further step leaves structurally equal, and simplifying the
\* output again returns it unchanged.
C24_StopsAtFixedPoint ==
    (called = "simplify" /\ ~Threw(result))
        => /\ simplifyIterations(result.substitutedFormula, 0) < maxSimplificationIterations
           /\ areAstsEqual(simplifyFormulaStep(result.simplifiedFormula),
                           result.simplifiedFormula)
           /\ simplifyFormula(result.simplifiedFormula) = result.simplifiedFormula

\* a formula that the first step changes and the second step leaves alone
C24_Witness ==
    /\ called = "simplify"
    /\ ~Threw(result)
    /\ simplifyIterations(result.substitutedFormula, 0) = 2
    /\ ~areAstsEqual(result.simplifiedFormula, result.substitutedFormula)
    /\ result.simplifiedFormula.type = "binary"

-----------------------------------------------------------------------------
(* InterpretationTester.calculate on inputs of invalid shape: the state    *)
(* machine                                                                 *)

MaxErrorLen == 2     \* formulas, well-formed or not: strings up to this length

ErrorFormulas == StringsUpTo({"a", AND, "("}, MaxErrorLen)

\* I models / does not model a, and three strings of another shape
ErrorInterpretations ==
    {<<"I", MODELS, "a">>, <<"I", NOTMODELS, NOT, "a">>,
     <<"I", MODELS>>, <<"a">>, <<"I", "a">>}

ErrorStatements ==
    {<<"I", MODELS, "A">>, <<"I", NOTMODELS, " ", "A">>,
     <<"A">>, <<"I", MODELS>>, <<MODELS, "A">>}

InitInterpretationErrors ==
    /\ \E f \in ErrorFormulas, i \in ErrorInterpretations, st \in ErrorStatements :
           config = Config(f, <<>>, i, st, <<>>)
    /\ called = "none"
    /\ result = NoResult
    /\ nextVar = 0

NextInterpretationErrors == InterpretationCalculate

SpecInterpretationErrors == InitInterpretationErrors /\ [][NextInterpretationErrors]_vars

\* the shape "I", a turnstile, then a literal over an identifier
InterpretationShapeValid(str) ==
    LET s == SelectSeq(str, LAMBDA ch : ch # " ") IN
    /\ Len(s) >= 3
    /\ s[1] = "I"
    /\ s[2] \in {MODELS, NOTMODELS}
    /\ LET name == IF s[3] = NOT THEN SubSeq(s, 4, Len(s)) ELSE SubSeq(s, 3, Len(s))
       IN /\ name # <<>>
          /\ IsLetter(name[1])
          /\ \A k \in 2..Len(name) : IsLetter(name[k]) \/ IsDigit(name[k])

\* the shape "I", a turnstile, then something
StatementShapeValid(str) ==
    LET s == SelectSeq(str, LAMBDA ch : ch # " ") IN
    Len(s) >= 3 /\ s[1] = "I" /\ s[2] \in {MODELS, NOTMODELS}

FormatErrors == {"Invalid interpretation format", "Invalid statement format"}

\* C25: an interpretation or a statement of invalid shape makes calculate
\* throw a format error, whatever the formula is, well-formed or not.
C25_FormatErrorBeforeParsing ==
    (/\ called = "interpretation"
     /\ \/ ~InterpretationShapeValid(config.interpretation)
        \/ ~StatementShapeValid(config.statement))
        => Threw(result) /\ result.error \in FormatErrors

-----------------------------------------------------------------------------
(* The CNF classifier against the evaluation of the formula *)

\* the total assignments of a formula's variables that agree with the
\* assignments recorded by the propagation
ExtensionsOfRecorded(node, assignments) ==
    {total \in [variablesOf(node) -> BOOLEAN] :
        \A v \in variablesOf(node) :
            <<v>> \in DOMAIN assignments => total[v] = assignments[<<v>>]}

\* C26: on a clause set, the verdict satisfiable comes with recorded
\* assignments that some assignment satisfying the formula extends, and the
\* verdict unsatisfiable comes only for a formula that no assignment satisfies.
C26_ClassifierSound ==
    (called = "determinism" /\ IsClauseForm(config.formula))
        => LET node == Parse(config.formula).node
               recorded == performUnitPropagation(parseCNF(config.formula)).assignments
           IN /\ result.determinismResult = "satisfiable"
                     => \E total \in ExtensionsOfRecorded(node, recorded) :
                            evaluateFormula(node, total)
              /\ result.determinismResult = "unsatisfiable"
                     => \A total \in [variablesOf(node) -> BOOLEAN] :
                            ~evaluateFormula(node, total)

\* a clause set that two propagation steps empty: both variables are recorded
C26_Witness ==
    /\ called = "determinism"
    /\ config.formula = <<NOT, "a", AND, "(", "a", OR, "b", ")">>
    /\ result.determinismResult = "satisfiable"
    /\ performUnitPropagation(parseCNF(config.formula)).assignments
           = (<<"a">> :> FALSE) @@ (<<"b">> :> TRUE)

\* C27: a well-formed formula is satisfiable iff its simplified formula is.
C27_SatisfiabilityPreserved ==
    (called = "pureAtom" /\ ~Threw(Parse(config.formula)))
        => LET output == Parse(result.simplifiedFormula) IN
           /\ ~Threw(output)
           /\ Satisfiable(Parse(config.formula).node) <=> Satisfiable(output.node)

\* a satisfiable formula with a pure atom whose simplified formula is not a
\* constant
C27_Witness ==
    /\ called = "pureAtom"
    /\ ~Threw(Parse(config.formula))
    /\ result.pureAtoms # <<>>
    /\ Len(result.simplifiedFormula) > 1
    /\ result.simplifiedFormula # config.formula
    /\ Satisfiable(Parse(config.formula).node)
    /\ Satisfiable(Parse(result.simplifiedFormula).node)

-----------------------------------------------------------------------------
(* The three unit-propagation loops: what a propagated literal leaves *)

\* no clause of the list holds a propagated literal or its complement
FreeOf(clauses, literals) ==
    \A i \in 1..Len(clauses) : \A l \in literals :
        l \notin LiteralsIn(clauses[i]) /\ Complement(l) \notin LiteralsIn(clauses[i])

StepLiterals(steps) == {steps[i].literal : i \in 1..Len(steps)}

EachVariableOnce(steps) ==
    \A i, j \in 1..Len(steps) :
        i # j => VariableOf(steps[i].literal) # VariableOf(steps[j].literal)

\* what the claim says of a run of the loop of either determinism checker
RunKeepsLiteralsOut(run, clauses) ==
    /\ EachVariableOnce(run.steps)
    /\ \A i \in 1..Len(run.steps) :
           /\ run.steps[i].variable \in DOMAIN run.assignments
           /\ run.assignments[run.steps[i].variable] = run.steps[i].value
    /\ FreeOf(run.remainingClauses, StepLiterals(run.steps))
    /\ (~run.isEmpty /\ ~run.isContradiction /\ run.remainingClauses # <<>>)
           => \E v \in getAllVariables(clauses) : v \notin DOMAIN run.assignments

\* C28: in each of the three loops a propagated literal and its complement
\* are gone from the clauses that remain, each variable is propagated once
\* at most, no step meets an assignment of the opposite value, and a stalled
\* run leaves a variable of the original clauses unassigned.
C28_PropagatedLiteralGone ==
    /\ called = "unitPropagation"
           => /\ EachVariableOnce(result.steps)
              /\ \A i \in 1..Len(result.steps) :
                     FreeOf([k \in 1..Len(result.steps[i].afterClauses) |->
                                Split(result.steps[i].afterClauses[k], ",")],
                            {result.steps[j].literal : j \in 1..i})
    /\ called = "determinism"
           => RunKeepsLiteralsOut(performUnitPropagation(parseCNF(config.formula)),
                                  parseCNF(config.formula))
    /\ called = "generalDeterminism"
           => RunKeepsLiteralsOut(generalPerformUnitPropagation(parseCNF(config.formula)),
                                  parseCNF(config.formula))

\* a run that propagates a, removes its complement from a clause and stalls
\* on what is left of it, with b unassigned
C28_Witness ==
    /\ called = "determinism"
    /\ config.formula = <<"a", AND, "(", NOT, "a", OR, "b", OR, NOT, "b", ")">>
    /\ result.determinismResult = "undetermined"
    /\ LET run == performUnitPropagation(parseCNF(config.formula)) IN
       /\ run.remainingClauses = <<<< <<"b">>, <<NOT, "b">> >>>>
       /\ DOMAIN run.assignments = {<<"a">>}

-----------------------------------------------------------------------------
(* The three unit-propagation loops, one iteration at a time: the state    *)
(* machine.  `result` holds the variables of the running loop.             *)

MaxPropagationSteps == 6     \* an iteration starts while steps is shorter than this

\* the variables of performUnitPropagation when its loop is entered
LoopState(clauses) ==
    [threw |-> FALSE, done |-> FALSE, isEmpty |-> FALSE, isContradiction |-> FALSE,
     currentClauses |-> clauses, assignments |-> NoAssignments, steps |-> <<>>]

\* one iteration of the while loop of DeterminismChecker.performUnitPropagation
determinismIteration(st) ==
    LET unitIndex == findUnitIndex(st.currentClauses) IN
    IF unitIndex = 0 THEN [st EXCEPT !.done = TRUE]
    ELSE LET literal == st.currentClauses[unitIndex][1]
             variable == literalVariable(literal)
             value == literalValue(literal)
             steps2 == Append(st.steps,
                              [literal |-> literal, value |-> value, variable |-> variable])
         IN IF variable \in DOMAIN st.assignments /\ st.assignments[variable] # value
            THEN [st EXCEPT !.done = TRUE, !.isContradiction = TRUE, !.steps = steps2]
            ELSE LET assignments2 == (variable :> value) @@ st.assignments
                     newClauses == sweepClauses(st.currentClauses, unitIndex, literal)
                 IN IF \E i \in 1..Len(newClauses) : Len(newClauses[i]) = 0
                    THEN [st EXCEPT !.done = TRUE, !.isContradiction = TRUE,
                                    !.steps = steps2, !.assignments = assignments2]
                    ELSE IF Len(newClauses) = 0
                    THEN [st EXCEPT !.done = TRUE, !.isEmpty = TRUE,
                                    !.currentClauses = newClauses,
                                    !.steps = steps2, !.assignments = assignments2]
                    ELSE [st EXCEPT !.currentClauses = newClauses,
                                    !.steps = steps2, !.assignments = assignments2]

\* one iteration of the while loop of
\* GeneralDeterminismChecker.performUnitPropagation
generalIteration(st) ==
    LET unitIndex == findUnitIndex(st.currentClauses) IN
    IF unitIndex = 0 THEN [st EXCEPT !.done = TRUE]
    ELSE LET literal == st.currentClauses[unitIndex][1]
             variable == literalVariable(literal)
             value == literalValue(literal)
             steps2 == Append(st.steps,
                              [literal |-> literal, value |-> value, variable |-> variable])
         IN IF variable \in DOMAIN st.assignments /\ st.assignments[variable] # value
            THEN [st EXCEPT !.done = TRUE, !.isContradiction = TRUE, !.steps = steps2]
            ELSE LET assignments2 == (variable :> value) @@ st.assignments
                     newClauses == propagateLiteral(st.currentClauses, literal)
                 IN IF Len(newClauses) = 0
                    THEN [st EXCEPT !.done = TRUE, !.isEmpty = TRUE,
                                    !.currentClauses = newClauses,
                                    !.steps = steps2, !.assignments = assignments2]
                    ELSE [st EXCEPT !.currentClauses = newClauses,
                                    !.steps = steps2, !.assignments = assignments2]

\* one iteration of the while (true) loop of UnitPropagation.calculate; the
\* loop has no exit but the break, so neither flag is ever set
unitPropagationIteration(st) ==
    LET unitIndex == findUnitIndex(st.currentClauses) IN
    IF unitIndex = 0 THEN [st EXCEPT !.done = TRUE]
    ELSE LET literal == st.currentClauses[unitIndex][1]
             after == propagateLiteral(st.currentClauses, literal)
         IN [st EXCEPT !.currentClauses = after,
                       !.literals = IF Includes(st.literals, literal) THEN st.literals
                                    ELSE Append(st.literals, literal),
                       !.steps = Append(st.steps,
                                        [literal |-> literal,
                                         beforeClauses |-> joinClauses(st.currentClauses),
                                         afterClauses |-> joinClauses(after)])]

InitPropagationSteps ==
    /\ \E f \in CnfFormulas : config = Config(f, <<>>, <<>>, <<>>, <<>>)
    /\ called = "none"
    /\ result = NoResult
    /\ nextVar = 0

\* checkCNFDeterminism reaches performUnitPropagation when a clause is unit
DeterminismEnterLoop ==
    /\ called = "none"
    /\ hasUnitClauses(parseCNF(config.formula))
    /\ called' = "determinismLoop"
    /\ result' = LoopState([i \in 1..Len(parseCNF(config.formula)) |->
                               Unique(parseCNF(config.formula)[i])])
    /\ UNCHANGED <<config, nextVar>>

DeterminismIterate ==
    /\ called = "determinismLoop"
    /\ ~result.done
    /\ Len(result.steps) < MaxPropagationSteps
    /\ result' = determinismIteration(result)
    /\ UNCHANGED <<config, called, nextVar>>

GeneralEnterLoop ==
    /\ called = "none"
    /\ hasUnitClauses(parseCNF(config.formula))
    /\ called' = "generalLoop"
    /\ result' = LoopState(parseCNF(config.formula))
    /\ UNCHANGED <<config, nextVar>>

GeneralIterate ==
    /\ called = "generalLoop"
    /\ ~result.done
    /\ Len(result.steps) < MaxPropagationSteps
    /\ result' = generalIteration(result)
    /\ UNCHANGED <<config, called, nextVar>>

UnitPropagationEnterLoop ==
    /\ called = "none"
    /\ called' = "unitPropagationLoop"
    /\ result' = [threw |-> FALSE, done |-> FALSE,
                  isEmpty |-> FALSE, isContradiction |-> FALSE,
                  currentClauses |-> parseToClauses(config.formula),
                  literals |-> <<>>, steps |-> <<>>]
    /\ UNCHANGED <<config, nextVar>>

UnitPropagationIterate ==
    /\ called = "unitPropagationLoop"
    /\ ~result.done
    /\ Len(result.steps) < MaxPropagationSteps
    /\ result' = unitPropagationIteration(result)
    /\ UNCHANGED <<config, called, nextVar>>

NextPropagationSteps ==
    \/ DeterminismEnterLoop
    \/ DeterminismIterate
    \/ GeneralEnterLoop
    \/ GeneralIterate
    \/ UnitPropagationEnterLoop
    \/ UnitPropagationIterate

\* a loop that has been entered runs: nothing else is scheduled in between
SpecPropagationSteps ==
    /\ InitPropagationSteps
    /\ [][NextPropagationSteps]_vars
    /\ WF_vars(DeterminismIterate)
    /\ WF_vars(GeneralIterate)
    /\ WF_vars(UnitPropagationIterate)

InLoop == called \in {"determinismLoop", "generalLoop", "unitPropagationLoop"}

InputClauses ==
    IF called = "unitPropagationLoop" THEN parseToClauses(config.formula)
    ELSE parseCNF(config.formula)

\* the loop has stopped in exactly one of: no clause left, contradiction,
\* clauses left and none of them unit
EndedInOneState ==
    LET empty == result.currentClauses = <<>> /\ ~result.isContradiction
        contradiction == result.isContradiction /\ ~result.isEmpty
        stalled == /\ result.currentClauses # <<>>
                   /\ ~result.isEmpty /\ ~result.isContradiction
                   /\ ~hasUnitClauses(result.currentClauses)
    IN /\ empty \/ contradiction \/ stalled
       /\ ~(empty /\ contradiction) /\ ~(empty /\ stalled) /\ ~(contradiction /\ stalled)
       /\ result.isEmpty => empty

\* C29: every loop that is entered stops; it takes at most as many
\* propagation steps as the input has clauses, an iteration that goes on
\* leaves fewer clauses than it found, and the loop stops in exactly one of
\* the states empty, contradiction and stalled.
C29_LoopTerminates ==
    /\ [](InLoop => /\ Len(result.steps) <= Len(InputClauses)
                    /\ result.done => EndedInOneState)
    /\ [][(InLoop /\ (~result'.done \/ result'.isEmpty))
              => Len(result'.currentClauses) < Len(result.currentClauses)]_vars
    /\ (InLoop ~> (InLoop /\ result.done))

\* a loop of three clauses that stopped on a contradiction in its second
\* propagation step
C29_Witness ==
    /\ called = "determinismLoop"
    /\ result.done
    /\ result.isContradiction
    /\ Len(result.steps) = 2
    /\ Len(InputClauses) = 3
    /\ EndedInOneState

-----------------------------------------------------------------------------
(* calculatePolarity and annotateTreeWithPolarity on one tree: the state   *)
(* machine                                                                 *)

MaxPolarityNodes == 5     \* trees: up to this many nodes
MaxPolarityDepth == 3     \* positions: up to this many steps

RECURSIVE StepSeqs(_)
StepSeqs(n) ==
    IF n = 0 THEN {<<>>}
    ELSE StepSeqs(n - 1)
         \cup {Append(p, d) : p \in {q \in StepSeqs(n - 1) : Len(q) = n - 1},
                              d \in {<<"1">>, <<"2">>}}

\* the positions "", "1", "2", "1.1", ... up to MaxPolarityDepth steps
PolarityPositions == {Join(p, <<".">>) : p \in StepSeqs(MaxPolarityDepth)}

InitPolarityHelpers ==
    /\ \E f \in {toText(t) : t \in TreesUpTo({Var("a")}, BinaryOps, MaxPolarityNodes)},
          p \in PolarityPositions :
           config = Config(f, p, <<>>, <<>>, <<>>)
    /\ called = "none"
    /\ result = NoResult
    /\ nextVar = 0

CalculatePolarity ==
    /\ called = "none"
    /\ called' = "calculatePolarity"
    /\ result' = [threw |-> FALSE,
                  polarityValue |-> calculatePolarity(Parse(config.formula).node,
                                                      config.position)]
    /\ UNCHANGED <<config, nextVar>>

AnnotateTreeWithPolarity ==
    /\ called = "calculatePolarity"
    /\ called' = "annotateTreeWithPolarity"
    /\ result' = [threw |-> FALSE,
                  polarityValue |-> result.polarityValue,
                  tree |-> annotateTreeWithPolarity(Parse(config.formula).node, 1, <<>>)]
    /\ UNCHANGED <<config, nextVar>>

NextPolarityHelpers ==
    \/ CalculatePolarity
    \/ AnnotateTreeWithPolarity

SpecPolarityHelpers == InitPolarityHelpers /\ [][NextPolarityHelpers]_vars

\* the node of an annotated tree that a path leads to
RECURSIVE AnnotatedAt(_, _)
AnnotatedAt(node, path) ==
    IF path = <<>> THEN node
    ELSE IF node.type = "unary" THEN AnnotatedAt(node.operand, Tail(path))
    ELSE AnnotatedAt(IF Head(path) = 1 THEN node.left ELSE node.right, Tail(path))

RECURSIVE PolarityTags(_)
PolarityTags(node) ==
    {node.polarity}
        \cup (IF node.type = "unary" THEN PolarityTags(node.operand)
              ELSE IF node.type = "binary"
              THEN PolarityTags(node.left) \cup PolarityTags(node.right)
              ELSE {})

\* C30: for a position valid for the tree, calculatePolarity returns the
\* polarity tag of the annotated node at that position, the position tag of
\* that node is the position, and every polarity tag is 1 or -1.
C30_PolarityComputationsAgree ==
    (/\ called = "annotateTreeWithPolarity"
     /\ ValidPosition(Parse(config.formula).node, config.position))
        => LET node == AnnotatedAt(result.tree, PathOf(config.position)) IN
           /\ result.polarityValue = node.polarity
           /\ node.position = config.position
           /\ PolarityTags(result.tree) \subseteq {1, -1}

\* the left side of an implication under a negation, three steps down
C30_Witness ==
    /\ called = "annotateTreeWithPolarity"
    /\ config.position = <<"1", ".", "1", ".", "1">>
    /\ ValidPosition(Parse(config.formula).node, config.position)
    /\ Parse(config.formula).node.type = "unary"
    /\ Parse(config.formula).node.operand.type = "binary"
    /\ Parse(config.formula).node.operand.operator = IMPLIES
    /\ result.polarityValue = -1
    /\ AnnotatedAt(result.tree, <<1, 1, 1>>).polarity = -1

=============================================================================
